---- MODULE Spec2Model ----
(***************************************************************************)
(* Model of the vbdb-fetch upsert store (src/src/vbdb_fetch/db.py,         *)
(* schema.py) and of the build orchestrator (src/build_database.py).       *)
(*                                                                         *)
(* A table is the bag of its rows: the AUTOINCREMENT id column gives each   *)
(* row an identity and nothing else, no statement of the code reads it or  *)
(* orders by it, so two rows with equal data columns are two copies of one *)
(* element of the bag.  Of the data                                        *)
(* columns of each table the model keeps the natural key, one ordinary     *)
(* data column, the foreign key of the player tables, and the column each  *)
(* fetcher is known to omit (current_roster_id, height); the other         *)
(* columns are nullable TEXT columns bound the same way as the ones kept.  *)
(*                                                                         *)
(* The store has two views: db is what the open connection sees (its       *)
(* pending transaction included), disk is what has been committed.         *)
(***************************************************************************)
EXTENDS Integers, Sequences, FiniteSets, Bags, TLC

VARIABLES
    db,       \* the tables as the open connection sees them
    disk,     \* the tables as committed
    failed,   \* history: rows left pending by calls that raised
    scope,    \* the league a session of direct Database calls works on
    leagues,  \* build_database: the leagues argument
    toggles,  \* build_database: should_import_teams, import_rosters, import_schedules
    pc,       \* build_database: position in the per-league loop
    results,  \* build_database: the results dictionary
    ran,      \* history: the slices executed so far, in order
    fault,    \* the league whose schedule fetcher raises in this run
    twin,     \* the same run with the schedule fetcher of fault not raising
    args,     \* main: the --teams, --rosters, --schedules flags
    summary,  \* what log_build_summary has logged and main has printed
    paths,    \* main: the database paths and the files that hold the store
    derived   \* history: the identifiers derived so far, each with its input

storeVars == <<db, disk, failed, scope>>

buildVars ==
    <<leagues, toggles, pc, results, ran, fault, twin, args, summary, paths>>

idVars == <<derived>>

vars == <<db, disk, failed, scope, leagues, toggles, pc, results, ran, fault,
          twin, args, summary, paths, derived>>

Leagues == {"LOVB", "PVF", "NCAAM", "NCAAW"}

Kinds == {"teams", "players", "results"}

\* Python None, bound by sqlite3 as SQL NULL.
None == "None"

-----------------------------------------------------------------------------
(* Schema *)

\* The leagues whose table of the given kind is created by get_schema_sql.
SchemaLeagues(kind) ==
    IF kind = "results" THEN {"LOVB", "PVF", "NCAAM"} ELSE Leagues

\* The natural key column of a table.
KeyCol(kind, l) ==
    CASE kind = "teams" -> "team_id"
      [] kind = "players" -> "player_id"
      [] kind = "results" -> IF l = "PVF" THEN "pvf_match_id" ELSE "match_id"

\* Whether the CREATE TABLE statement declares the natural key UNIQUE.
IsUnique(kind, l) ==
    CASE kind = "teams" -> TRUE
      [] kind = "players" -> l = "LOVB"
      [] kind = "results" -> l \in {"LOVB", "PVF", "NCAAM"}

\* The columns declared NOT NULL.
NotNullCols(kind, l) ==
    CASE kind = "teams" -> {"team_id", "name"}
      [] kind = "players" -> IF l = "LOVB" THEN {"player_id", "name"} ELSE {}
      [] kind = "results" -> {KeyCol(kind, l)}

\* The named parameters the INSERT OR REPLACE statement of a table binds.
BoundCols(kind, l) ==
    CASE kind = "teams" ->
            IF l = "PVF" THEN {"team_id", "name", "current_roster_id"}
                         ELSE {"team_id", "name"}
      [] kind = "players" -> {"player_id", "name", "team_id", "height"}
      [] kind = "results" -> {KeyCol(kind, l), "score", "home_team_id"}

\* The data columns of a table that its statement does not bind: pvf_results
\* declares home_team_img and away_team_img, add_pvf_results binds neither.
\* The model keeps one of the two.
UnboundCols(kind, l) ==
    IF kind = "results" /\ l = "PVF" THEN {"home_team_img"} ELSE {}

\* Database.connect executes PRAGMA foreign_keys = ON.
ForeignKeysOn == TRUE

-----------------------------------------------------------------------------
(* Rows and statements *)

\* The values of column c over the rows of a table.
ColumnValues(rows, c) == {r[c] : r \in BagToSet(rows)}

\* The table without the rows that hold value v in column c.
WithoutKey(rows, c, v) ==
    LET keep == {r \in BagToSet(rows) : r[c] # v}
    IN  [r \in keep |-> rows[r]]

\* The row a table receives for a record: the bound columns hold the named
\* parameters, a column the statement does not name holds NULL.
RowOf(rec, kind, l) ==
    [c \in BoundCols(kind, l) \cup UnboundCols(kind, l) |->
        IF c \in BoundCols(kind, l) THEN rec[c] ELSE None]

\* Mutant of InsertOrReplace: a plain INSERT that ignores the UNIQUE key.
InsertOnly(rows, row, kind, l) == rows (+) SetToBag({row})

\* INSERT OR REPLACE of one row: the REPLACE conflict resolution deletes the
\* rows that collide on a UNIQUE column, then the new row is inserted.
InsertOrReplace(rows, row, kind, l) ==
    IF IsUnique(kind, l)
    THEN LET k == KeyCol(kind, l)
         IN  WithoutKey(rows, k, row[k]) (+) SetToBag({row})
    ELSE rows (+) SetToBag({row})

\* One execution of the statement with the named parameters of rec.
\* parents: the team_id values of the parent table (players only).
\* Raises when a named parameter is not supplied (ProgrammingError), when a
\* NOT NULL column is bound to NULL or a non-NULL foreign key has no parent
\* (IntegrityError); a statement that raises changes nothing.
ExecuteOne(rows, rec, kind, l, parents) ==
    IF \E c \in BoundCols(kind, l) : c \notin DOMAIN rec
    THEN [raised |-> TRUE, rows |-> rows]
    ELSE LET row == RowOf(rec, kind, l)
         IN  IF \E c \in NotNullCols(kind, l) : row[c] = None
             THEN [raised |-> TRUE, rows |-> rows]
             ELSE IF /\ kind = "players"
                     /\ ForeignKeysOn
                     /\ row["team_id"] # None
                     /\ row["team_id"] \notin parents
                  THEN [raised |-> TRUE, rows |-> rows]
                  ELSE [raised |-> FALSE,
                        rows |-> InsertOrReplace(rows, row, kind, l)]

\* cursor.executemany: the statement once per parameter set, in order, inside
\* the connection's open transaction; the first one that raises ends the
\* loop, the rows of the earlier ones stay in the pending transaction.
RECURSIVE executemany(_, _, _, _, _)
executemany(rows, params_list, kind, l, parents) ==
    IF params_list = <<>>
    THEN [raised |-> FALSE, rows |-> rows]
    ELSE LET r == ExecuteOne(rows, Head(params_list), kind, l, parents)
         IN  IF r.raised
             THEN r
             ELSE executemany(r.rows, Tail(params_list), kind, l, parents)

-----------------------------------------------------------------------------
(* Database methods.  st is the store, [db |-> ..., disk |-> ...]; the     *)
(* result adds what the call did: raised, the returned count ret, the      *)
(* lines it printed (out) and the rows it handed to the table (written).   *)

\* Database.commit: the pending transaction becomes the committed store.
commit(d) == d

\* The rows of the batch that were executed before the statement that raised
\* (all of them when none raised), as the rows the table received.
RECURSIVE WrittenRows(_, _, _, _, _)
WrittenRows(rows, params_list, kind, l, parents) ==
    IF params_list = <<>>
    THEN <<>>
    ELSE LET r == ExecuteOne(rows, Head(params_list), kind, l, parents)
         IN  IF r.raised
             THEN <<>>
             ELSE <<RowOf(Head(params_list), kind, l)>>
                  \o WrittenRows(r.rows, Tail(params_list), kind, l, parents)

\* The body shared by add_<league>_teams and add_<league>_results:
\* executemany, commit, return len(data).  An exception of executemany
\* leaves the method before commit, and nothing rolls back.
WriteBatch(st, kind, l, data, parents) ==
    LET r     == executemany(st.db[kind][l], data, kind, l, parents)
        newdb == [st.db EXCEPT ![kind][l] = r.rows]
        w     == WrittenRows(st.db[kind][l], data, kind, l, parents)
    IN  IF r.raised
        THEN [db |-> newdb, disk |-> st.disk, raised |-> TRUE, ret |-> 0,
              out |-> <<>>, written |-> w]
        ELSE [db |-> newdb, disk |-> commit(newdb), raised |-> FALSE,
              ret |-> Len(data), out |-> <<>>, written |-> w]

\* Mutant of add_teams: the table is emptied before the batch is written.
add_teams_fresh(st, l, teams_data) ==
    WriteBatch([db   |-> [st.db EXCEPT !["teams"][l] = EmptyBag],
                disk |-> st.disk],
               "teams", l, teams_data, {})

\* add_lovb_teams, add_pvf_teams, add_ncaam_teams, add_ncaaw_teams.
add_teams(st, l, teams_data) == WriteBatch(st, "teams", l, teams_data, {})

\* Mutant of add_results: the records are validated against the team table
\* as the player records are.
add_results_validated(st, l, results_data) ==
    WriteBatch(st, "results", l,
               SelectSeq(results_data,
                         LAMBDA m : m["home_team_id"]
                                       \in ColumnValues(st.db["teams"][l],
                                                        "team_id")),
               {})

\* add_lovb_results, add_pvf_results, add_ncaam_results.
add_results(st, l, results_data) ==
    WriteBatch(st, "results", l, results_data, {})

\* Mutant of valid_team_ids: a missing team reference counts as valid.
valid_team_ids_or_none(st, l) ==
    ColumnValues(st.db["teams"][l], "team_id") \cup {None}

\* SELECT team_id FROM <league>_teams, read through the connection.
valid_team_ids(st, l) == ColumnValues(st.db["teams"][l], "team_id")

\* The validation loop: the players whose team_id is a valid team id.
processed_players(players_data, valid) ==
    SelectSeq(players_data, LAMBDA p : p["team_id"] \in valid)

\* The "Skipping player ..." line printed for each player the loop skips.
RECURSIVE skipped_players(_, _)
skipped_players(players_data, valid) ==
    IF players_data = <<>>
    THEN <<>>
    ELSE LET p == Head(players_data)
         IN  (IF p["team_id"] \notin valid
              THEN <<[name |-> IF "name" \in DOMAIN p THEN p["name"]
                                                     ELSE "Unknown",
                      team_id |-> p["team_id"]]>>
              ELSE <<>>)
             \o skipped_players(Tail(players_data), valid)

\* Mutant of add_players: a batch without a valid player is an error.
add_players_strict(st, l, players_data) ==
    LET valid     == valid_team_ids(st, l)
        processed == processed_players(players_data, valid)
        skipped   == skipped_players(players_data, valid)
    IN  IF processed = <<>>
        THEN [db |-> st.db, disk |-> st.disk, raised |-> TRUE, ret |-> 0,
              out |-> skipped, written |-> <<>>]
        ELSE LET r == WriteBatch(st, "players", l, processed, valid)
             IN  [r EXCEPT !.out = skipped]

\* The records of the batch that the validation loop reaches before
\* player_copy["team_id"] raises KeyError: those before the first record
\* without a team_id field, all of them when every record has the field.
BeforeKeyError(players_data) ==
    LET bad == {i \in 1..Len(players_data) :
                   "team_id" \notin DOMAIN players_data[i]}
    IN  IF bad = {}
        THEN players_data
        ELSE SubSeq(players_data, 1,
                    (CHOOSE i \in bad : \A j \in bad : i <= j) - 1)

\* add_lovb_players, add_pvf_players, add_ncaam_players, add_ncaaw_players.
\* A record without a team_id field makes the validation loop raise
\* KeyError, before any statement is executed.
add_players(st, l, players_data) ==
    LET valid     == valid_team_ids(st, l)
        reached   == BeforeKeyError(players_data)
        processed == processed_players(reached, valid)
        skipped   == skipped_players(reached, valid)
    IN  IF reached # players_data
        THEN [db |-> st.db, disk |-> st.disk, raised |-> TRUE, ret |-> 0,
              out |-> skipped, written |-> <<>>]
        ELSE IF processed = <<>>
        THEN [db |-> st.db, disk |-> st.disk, raised |-> FALSE, ret |-> 0,
              out |-> skipped, written |-> <<>>]
        ELSE LET r == WriteBatch(st, "players", l, processed, valid)
             IN  [r EXCEPT !.out = skipped]

\* The store a call leaves behind.
StoreOf(r) == [db |-> r.db, disk |-> r.disk]

-----------------------------------------------------------------------------
(* Identifier derivation.  A string of the program is the sequence of its   *)
(* characters, so that splitting and matching are computed, not assumed.    *)

\* record.get(field, default)
get(record, field, default) ==
    IF field \in DOMAIN record THEN record[field] ELSE default

Digit == {"0", "1", "2", "3", "4", "5", "6", "7", "8", "9"}

\* str.split(sep) for a one-character separator: the list of the pieces.
RECURSIVE split(_, _)
split(s, sep) ==
    IF \A i \in 1..Len(s) : s[i] # sep
    THEN <<s>>
    ELSE LET i == CHOOSE i \in 1..Len(s) :
                     s[i] = sep /\ \A j \in 1..(i - 1) : s[j] # sep
         IN  <<SubSeq(s, 1, i - 1)>> \o split(SubSeq(s, i + 1, Len(s)), sep)

\* The string t occurs in s at position p.
OccursAt(s, t, p) ==
    /\ p + Len(t) - 1 <= Len(s)
    /\ \A i \in 1..Len(t) : s[p + i - 1] = t[i]

\* The length of the longest run of digits of s that starts at position p.
DigitRun(s, p) ==
    IF p > Len(s) \/ s[p] \notin Digit
    THEN 0
    ELSE LET e == CHOOSE e \in p..Len(s) :
                     /\ \A i \in p..e : s[i] \in Digit
                     /\ e = Len(s) \/ s[e + 1] \notin Digit
         IN  e - p + 1

\* The literal the pattern r'/contests/(\d+)/' starts with.
ContestsLiteral == <<"/", "c", "o", "n", "t", "e", "s", "t", "s", "/">>

\* The pattern matches at position p: the literal, one or more digits taken
\* greedily, and a slash.
ContestMatchAt(url, p) ==
    LET d == p + Len(ContestsLiteral)
        n == DigitRun(url, d)
    IN  /\ OccursAt(url, ContestsLiteral, p)
        /\ n > 0
        /\ d + n <= Len(url)
        /\ url[d + n] = "/"

\* insert_ncaaw_results.extract_match_id: "" for a false url, group 1 of the
\* first match of re.search, "" without a match.
\* Mutant of extract_match_id: the last path segment of the URL.
extract_last_segment(url) ==
    LET pieces == split(url, "/") IN pieces[Len(pieces)]

extract_match_id(url) ==
    IF url = << >>
    THEN << >>
    ELSE IF \E p \in 1..Len(url) : ContestMatchAt(url, p)
         THEN LET p == CHOOSE p \in 1..Len(url) :
                          /\ ContestMatchAt(url, p)
                          /\ \A q \in 1..(p - 1) : ~ContestMatchAt(url, q)
                  d == p + Len(ContestsLiteral)
              IN  SubSeq(url, d, d + DigitRun(url, d) - 1)
         ELSE << >>

\* parse_box_score: "match_id": url.split('/')[-2].  A url without a slash
\* has one piece and the index raises IndexError.
ncaam_match_id(url) ==
    LET pieces == split(url, "/")
    IN  IF Len(pieces) < 2
        THEN [raised |-> TRUE, id |-> << >>]
        ELSE [raised |-> FALSE, id |-> pieces[Len(pieces) - 1]]

\* str.lower() on one character of the alphabet the names are written in.
lower_char(c) ==
    CASE c = "A" -> "a"
      [] c = "B" -> "b"
      [] c = "F" -> "f"
      [] c = "H" -> "h"
      [] c = "L" -> "l"
      [] c = "M" -> "m"
      [] c = "O" -> "o"
      [] c = "S" -> "s"
      [] c = "V" -> "v"
      [] OTHER -> c

\* str.lower()
lower(s) == [i \in 1..Len(s) |-> lower_char(s[i])]

\* The characters str.split() and str.strip() take as whitespace.
Whitespace == {" "}

\* str.split() with no separator: the runs of non-whitespace characters.
RECURSIVE words(_)
words(s) ==
    IF s = << >>
    THEN << >>
    ELSE IF s[1] \in Whitespace
         THEN words(Tail(s))
         ELSE LET e == CHOOSE e \in 1..Len(s) :
                         /\ \A i \in 1..e : s[i] \notin Whitespace
                         /\ e = Len(s) \/ s[e + 1] \in Whitespace
              IN  <<SubSeq(s, 1, e)>> \o words(SubSeq(s, e + 1, Len(s)))

\* sep.join(pieces)
RECURSIVE join(_, _)
join(pieces, sep) ==
    IF pieces = << >>
    THEN << >>
    ELSE IF Len(pieces) = 1
         THEN pieces[1]
         ELSE pieces[1] \o sep \o join(Tail(pieces), sep)

\* str.strip()
RECURSIVE strip(_)
strip(s) ==
    IF s = << >>
    THEN s
    ELSE IF s[1] \in Whitespace
         THEN strip(Tail(s))
         ELSE IF s[Len(s)] \in Whitespace
              THEN strip(SubSeq(s, 1, Len(s) - 1))
              ELSE s

\* str.replace(old, new), old not empty.
RECURSIVE replace(_, _, _)
replace(s, old, new) ==
    IF s = << >>
    THEN s
    ELSE IF OccursAt(s, old, 1)
         THEN new \o replace(SubSeq(s, Len(old) + 1, Len(s)), old, new)
         ELSE <<s[1]>> \o replace(Tail(s), old, new)

FoundingAthlete ==
    <<"F", "o", "u", "n", "d", "i", "n", "g", " ",
      "A", "t", "h", "l", "e", "t", "e">>

\* fetch_lovb_players: the player_id of a roster item, from its Name.
lovb_player_id(item) ==
    LET clean_name == strip(replace(item["Name"], FoundingAthlete, << >>))
        final_name == join(words(clean_name), <<" ">>)
    IN  [raised |-> FALSE, id |-> join(words(final_name), <<"-">>)]

\* fetch_pvf_players: the player_id of a roster entry's player.  A missing
\* name defaults to {}, which has no lower().
pvf_player_id(player_data) ==
    IF {"first_name", "last_name"} \subseteq DOMAIN player_data
    THEN [raised |-> FALSE,
          id |-> lower(player_data["first_name"]) \o <<"-">>
                    \o lower(player_data["last_name"])]
    ELSE [raised |-> TRUE, id |-> << >>]

\* fetch_ncaam_players: the player_id of a roster row, from its Player URL.
ncaa_player_id(row) ==
    LET url == get(row, "Player URL", << >>)
        pieces == split(url, "/")
    IN  [raised |-> FALSE,
         id |-> IF url # << >> THEN pieces[Len(pieces)] ELSE << >>]

\* Mutant of generate_team_id: the id numbers the team among the records
\* derived so far.
generate_team_id_numbered(team_name) ==
    join(words(lower(team_name)), <<"-">>)
        \o (IF Len(derived) = 0 THEN << >> ELSE <<"-", "2">>)

\* fetch_lovb_schedule: generate_team_id.
generate_team_id(team_name) == join(words(lower(team_name)), <<"-">>)

\* s has t as a substring: t in s.
Contains(s, t) == \E p \in 1..(Len(s) - Len(t) + 1) : OccursAt(s, t, p)

VolleyballSuffix ==
    <<"-", "v", "o", "l", "l", "e", "y", "b", "a", "l", "l">>

\* Mutant of lovb_match_team_id: the words of the name run together.
lovb_match_team_id_joined(team_name) ==
    join(words(lower(team_name)), << >>) \o VolleyballSuffix

\* fetch_lovb_schedule: home_team_id and away_team_id of match_data.
lovb_match_team_id(team_name) ==
    generate_team_id(team_name) \o VolleyballSuffix

\* fetch_lovb_players: the team_id of a roster item, by the first city
\* keyword its roster URL contains; None (here the empty id, flagged) when
\* it contains none.
lovb_roster_team_id(url) ==
    IF Contains(url,
                <<"a", "t", "l", "a", "n", "t", "a">>)
    THEN [raised |-> FALSE,
          id |->
              <<"l", "o", "v", "b", "-", "a", "t", "l", "a", "n", "t", "a",
                "-", "v", "o", "l", "l", "e", "y", "b", "a", "l", "l">>]
    ELSE IF Contains(url,
                <<"s", "a", "l", "t">>)
    THEN [raised |-> FALSE,
          id |->
              <<"l", "o", "v", "b", "-", "s", "a", "l", "t", "-", "l", "a",
                "k", "e", "-", "v", "o", "l", "l", "e", "y", "b", "a", "l",
                "l">>]
    ELSE IF Contains(url,
                <<"a", "u", "s", "t", "i", "n">>)
    THEN [raised |-> FALSE,
          id |->
              <<"l", "o", "v", "b", "-", "a", "u", "s", "t", "i", "n", "-",
                "v", "o", "l", "l", "e", "y", "b", "a", "l", "l">>]
    ELSE IF Contains(url,
                <<"h", "o", "u", "s", "t", "o", "n">>)
    THEN [raised |-> FALSE,
          id |->
              <<"l", "o", "v", "b", "-", "h", "o", "u", "s", "t", "o", "n",
                "-", "v", "o", "l", "l", "e", "y", "b", "a", "l", "l">>]
    ELSE IF Contains(url,
                <<"m", "a", "d", "i", "s", "o", "n">>)
    THEN [raised |-> FALSE,
          id |->
              <<"l", "o", "v", "b", "-", "m", "a", "d", "i", "s", "o", "n",
                "-", "v", "o", "l", "l", "e", "y", "b", "a", "l", "l">>]
    ELSE IF Contains(url,
                <<"o", "m", "a", "h", "a">>)
    THEN [raised |-> FALSE,
          id |->
              <<"l", "o", "v", "b", "-", "o", "m", "a", "h", "a", "-", "v",
                "o", "l", "l", "e", "y", "b", "a", "l", "l">>]
    ELSE [raised |-> FALSE, id |-> None]

-----------------------------------------------------------------------------
(* Inputs: the records a caller hands to the store. *)

\* The most rows a table without a UNIQUE key is allowed to grow to.
MaxRows == 3

\* The batches over a set of records: none, one or two records.
Batches(S) ==
    {<< >>} \cup {<<x>> : x \in S} \cup {<<x, y>> : x \in S, y \in S}

\* A team record with every field a team statement binds.
Atlanta ==
    [team_id |-> "atlanta-volleyball", name |-> "Atlanta",
     current_roster_id |-> "7"]

\* A team record in the shape fetch_pvf_teams emits: no current_roster_id.
Omaha == [team_id |-> "omaha-volleyball", name |-> "Omaha"]

\* A team record whose name is None.
Nameless ==
    [team_id |-> "omaha-volleyball", name |-> None, current_roster_id |-> "9"]

TeamRecords == {Atlanta, Omaha, Nameless}

\* A player record of the team atlanta-volleyball.
Poulter ==
    [player_id |-> "jordyn-poulter", name |-> "Jordyn Poulter",
     team_id |-> "atlanta-volleyball", height |-> "6'2"]

\* A player record that names a team no team record has.
CookUnknownTeam ==
    [player_id |-> "kelsey-cook", name |-> "Kelsey Cook",
     team_id |-> "unknown-team", height |-> "6'0"]

\* A player record without a team: fetch_lovb_players sets team_id to None
\* for a roster URL it does not recognise.
CookNoTeam ==
    [player_id |-> "kelsey-cook", name |-> "Kelsey Cook",
     team_id |-> None, height |-> "6'0"]

\* A player record in the shape fetch_lovb_players emits when the roster
\* table has no Height column.
CookNoHeight ==
    [player_id |-> "kelsey-cook", name |-> "Kelsey Cook",
     team_id |-> "atlanta-volleyball"]

PlayerRecords == {Poulter, CookUnknownTeam, CookNoTeam, CookNoHeight}

\* A player record with no team_id field, as a caller of Database can
\* hand it over; no fetcher emits it.
CookNoTeamField ==
    [player_id |-> "kelsey-cook", name |-> "Kelsey Cook", height |-> "6'0"]

\* The batches a caller of Database can hand over.
CallerBatches ==
    Batches({Poulter, CookUnknownTeam, CookNoTeam, CookNoTeamField})

\* Match records before the key is named: a match whose id extraction
\* failed (""), another such match with a different score, a match with an
\* id, and a record without a score field.
MatchNoId == [id |-> "", score |-> "3-1", home |-> "atlanta-volleyball"]

MatchNoIdAgain == [id |-> "", score |-> "3-2", home |-> "atlanta-volleyball"]

\* A match whose home team no team table ever holds.
Match123456 == [id |-> "123456", score |-> "3-1", home |-> "houston-volleyball"]

MatchNoScore == [id |-> "654321", home |-> "omaha-volleyball"]

MatchRecords == {MatchNoId, MatchNoIdAgain, Match123456, MatchNoScore}

\* A match record as the league's fetcher names its key.
MatchRecord(l, m) ==
    IF "score" \in DOMAIN m
    THEN (KeyCol("results", l) :> m.id)
            @@ [score |-> m.score, home_team_id |-> m.home]
    ELSE (KeyCol("results", l) :> m.id) @@ [home_team_id |-> m.home]

\* The pieces of a box-score URL.
Site == <<"h", ":", "/", "/", "n">>

BoxScore == <<"/", "b", "o", "x", "_", "s", "c", "o", "r", "e">>

\* Records of data/ncaa_volleyball_schedules_2024.json: a match, the same
\* match with another score, and two matches without a box-score URL.
Game12 ==
    [box_score |-> Site \o ContestsLiteral \o <<"1", "2">> \o BoxScore,
     score |-> "3-1"]

Game12Again ==
    [box_score |-> Site \o ContestsLiteral \o <<"1", "2">> \o BoxScore,
     score |-> "3-2"]

GameNoUrl == [score |-> "3-0"]

GameNoUrlAgain == [score |-> "0-3"]

NcaawRecords == {Game12, Game12Again, GameNoUrl, GameNoUrlAgain}

NcaawBatches == Batches(NcaawRecords)

\* Whether the fetcher of a league's entity type is in the repository's
\* sources (teams/, players/, schedule/).
FetcherInSources(kind, l) ==
    CASE kind = "teams" -> l \in {"PVF", "NCAAM", "NCAAW"}
      [] kind = "players" -> l \in {"LOVB", "PVF", "NCAAM"}
      [] kind = "results" -> l \in {"LOVB", "PVF", "NCAAM"}

\* The fields of the record a fetcher emits for a source object, among the
\* fields the statements bind: fetch_pvf_teams emits no current_roster_id
\* (the lines are commented out), fetch_lovb_players emits height only
\* when the roster item has a Height column.
EmittedFields(kind, l, raw) ==
    CASE kind = "teams" -> {"team_id", "name"}
      [] kind = "players" ->
            IF l = "LOVB" /\ "Height" \notin DOMAIN raw
            THEN {"player_id", "name", "team_id"}
            ELSE {"player_id", "name", "team_id", "height"}
      [] kind = "results" -> {KeyCol(kind, l), "score", "home_team_id"}

\* The value of a field of the emitted record.
EmittedValue(kind, l, raw, c) ==
    CASE c = "height" -> raw["Height"]
      [] c = KeyCol(kind, l) -> raw["id"]
      [] OTHER -> raw[c]

\* The record a fetcher emits for a source object.
Emitted(kind, l, raw) ==
    [c \in EmittedFields(kind, l, raw) |-> EmittedValue(kind, l, raw, c)]

\* Source objects: a team of the teams API, two roster items (one of a
\* roster table without a Height column), a game.
SourceObjects(kind) ==
    CASE kind = "teams" ->
            {[id |-> "atlanta-volleyball", name |-> "Atlanta",
              current_roster_id |-> "7"]}
      [] kind = "players" ->
            {[id |-> "jordyn-poulter", name |-> "Jordyn Poulter",
              team_id |-> "atlanta-volleyball", Height |-> "6'2"],
             [id |-> "kelsey-cook", name |-> "Kelsey Cook",
              team_id |-> "atlanta-volleyball"]}
      [] kind = "results" ->
            {[id |-> "123456", score |-> "3-1",
              home_team_id |-> "atlanta-volleyball"]}

TeamBatches == Batches(TeamRecords)

PlayerBatches == Batches(PlayerRecords)

ResultBatches(l) == Batches({MatchRecord(l, m) : m \in MatchRecords})

-----------------------------------------------------------------------------
(* The store driven through the Database interface *)

\* The tables get_schema_sql creates, as (kind, league) pairs.
SchemaTables == {t \in Kinds \X Leagues : t[2] \in SchemaLeagues(t[1])}

\* The store init_db leaves on a new file: the tables of the schema, empty.
\* A table that does not exist has no rows.
EmptyStore ==
    [k \in Kinds |-> [l \in Leagues |-> EmptyBag]]
        @@ [tables |-> SchemaTables]

Store == [db |-> db, disk |-> disk]

\* The rows of a call, tagged with the table they went to.
Tagged(kind, l, rows) ==
    {[kind |-> kind, league |-> l, row |-> rows[i]] : i \in 1..Len(rows)}

\* failed: the rows, not committed before, that calls which raised have
\* left in the pending transaction.  A later successful write of the same
\* row to the same table makes the row that write's own, and a row that a
\* later statement has replaced is no longer pending.
FailedAfter(kind, l, r) ==
    LET f == IF r.raised
             THEN failed \cup {x \in Tagged(kind, l, r.written) :
                                  CopiesIn(x.row, disk[kind][l]) = 0}
             ELSE failed \ Tagged(kind, l, r.written)
    IN  {x \in f : CopiesIn(x.row, r.db[x.kind][x.league]) > 0}

\* No table without a UNIQUE key outgrows MaxRows.
WithinRows(d) ==
    \A k \in Kinds, l \in Leagues : BagCardinality(d[k][l]) <= MaxRows

\* The bounds of the exploration allow the result r of a call.
Allowed(kind, l, r) == WithinRows(r.db)

AddTeams ==
    \E teams_data \in TeamBatches :
        \E r \in {add_teams(Store, scope, teams_data)} :
            /\ Allowed("teams", scope, r)
            /\ db' = r.db
            /\ disk' = r.disk
            /\ failed' = FailedAfter("teams", scope, r)
            /\ UNCHANGED <<scope, buildVars, idVars>>

AddPlayers ==
    \E players_data \in PlayerBatches :
        \E r \in {add_players(Store, scope, players_data)} :
            /\ Allowed("players", scope, r)
            /\ db' = r.db
            /\ disk' = r.disk
            /\ failed' = FailedAfter("players", scope, r)
            /\ UNCHANGED <<scope, buildVars, idVars>>

AddResults ==
    /\ scope \in SchemaLeagues("results")
    /\ \E results_data \in ResultBatches(scope) :
        \E r \in {add_results(Store, scope, results_data)} :
            /\ Allowed("results", scope, r)
            /\ db' = r.db
            /\ disk' = r.disk
            /\ failed' = FailedAfter("results", scope, r)
            /\ UNCHANGED <<scope, buildVars, idVars>>

\* The values insert_ncaaw_results.py binds for a record.
ncaaw_row(record) ==
    [match_id |-> extract_match_id(get(record, "box_score", << >>)),
     score |-> get(record, "score", ""),
     box_score |-> get(record, "box_score", << >>)]

\* The rows of a list, one plain INSERT each.
RECURSIVE InsertAll(_, _)
InsertAll(rows, data) ==
    IF data = << >>
    THEN rows
    ELSE InsertAll(rows (+) SetToBag({ncaaw_row(Head(data))}), Tail(data))

\* insert_ncaaw_results.py on one database file: DROP TABLE IF EXISTS,
\* CREATE TABLE without a UNIQUE column, INSERT per record, commit.
insert_ncaaw_results(d, data) ==
    [d EXCEPT !["results"]["NCAAW"] = InsertAll(EmptyBag, data),
              !["tables"] = @ \cup {<<"results", "NCAAW">>}]

\* The script runs as a process of its own on the committed file; while
\* another connection holds a pending transaction the file is locked and
\* the script changes nothing.
InsertNcaawResults ==
    /\ scope = "NCAAW"
    /\ db = disk
    /\ \E data \in NcaawBatches :
          /\ disk' = insert_ncaaw_results(disk, data)
          /\ db' = insert_ncaaw_results(disk, data)
    /\ UNCHANGED <<failed, scope, buildVars, idVars>>

\* Mutant of create_tables: every table of the schema is dropped and
\* created again.
create_tables_fresh(file) ==
    [k \in Kinds |->
        [l \in Leagues |->
            IF <<k, l>> \in SchemaTables THEN EmptyBag ELSE file[k][l]]]
        @@ [tables |-> file["tables"] \cup SchemaTables]

\* create_tables(schema_sql=get_schema_sql()): CREATE TABLE IF NOT EXISTS
\* and CREATE INDEX IF NOT EXISTS for every table of the schema.
create_tables(file) ==
    [k \in Kinds |-> file[k]]
        @@ [tables |-> file["tables"] \cup SchemaTables]

\* init_db on a database file: connect, create_tables, commit.
init_db(file) ==
    [db |-> create_tables(file), disk |-> create_tables(file)]

\* The process ends with its connection never closed or committed, and the
\* next run opens the store again: init_db connects and creates the tables
\* that are missing; the pending transaction of the old connection is gone.
InitDb ==
    /\ db' = init_db(disk).db
    /\ disk' = init_db(disk).disk
    /\ failed' = {}
    /\ UNCHANGED <<scope, buildVars, idVars>>

Idle == [i |-> 0, phase |-> "idle"]

\* No command-line flag given.
NoFlags == [teams |-> FALSE, rosters |-> FALSE, schedules |-> FALSE]

\* Every combination of the three flags.
Flags == [teams : BOOLEAN, rosters : BOOLEAN, schedules : BOOLEAN]

\* The command lines of the runs: all but the one that gives all three
\* flags, which imports what the one without flags imports.
CommandLines == {a \in Flags : ~(a.teams /\ a.rosters /\ a.schedules)}

\* The two destinations of main.
local_db_path == "./vbdb.db"

api_db_path == "../vbdb-api/vbdb.db"

\* --db-path, --no-api, --no-local: a path given or None, two switches.
PathArgs ==
    [db_path : {None, "./other.db"}, no_api : BOOLEAN, no_local : BOOLEAN]

\* main: the primary database path.
primary_db_path(a) ==
    IF a.db_path # None
    THEN a.db_path
    ELSE IF a.no_local /\ ~a.no_api
    THEN api_db_path
    ELSE local_db_path

\* build_database has opened the store at the primary path: the file is
\* there.
Opened(a) ==
    [db_path |-> a.db_path, no_api |-> a.no_api, no_local |-> a.no_local,
     primary_db_path |-> primary_db_path(a),
     stores |-> {primary_db_path(a)}]

DefaultPaths == Opened([db_path |-> None, no_api |-> FALSE, no_local |-> FALSE])

\* main after build_database: the paths that hold the store after the
\* copies.
copy_database_files(p) ==
    p.stores
        \cup (IF ~p.no_api /\ p.primary_db_path # api_db_path
              THEN {api_db_path} ELSE {})
        \cup (IF ~p.no_local /\ p.primary_db_path # local_db_path
              THEN {local_db_path} ELSE {})

\* Nothing logged or printed yet.
NoSummary == [log |-> << >>, printed |-> << >>]

\* Mutant of import_flags: the flags as given.
import_flags_as_given(a) ==
    [teams |-> a.teams, rosters |-> a.rosters, schedules |-> a.schedules]

\* main: what to import, from the command-line flags.
import_flags(a) ==
    IF ~(a.teams \/ a.rosters \/ a.schedules)
    THEN [teams |-> TRUE, rosters |-> TRUE, schedules |-> TRUE]
    ELSE [teams |-> a.teams, rosters |-> a.rosters, schedules |-> a.schedules]

NoResults == [k \in {"teams", "players", "schedules"} |-> << >>]

Init ==
    /\ db = EmptyStore
    /\ disk = EmptyStore
    /\ failed = {}
    /\ scope \in Leagues
    /\ leagues = << >>
    /\ toggles = [teams |-> TRUE, rosters |-> TRUE, schedules |-> TRUE]
    /\ args = NoFlags
    /\ summary = NoSummary
    /\ pc = Idle
    /\ results = NoResults
    /\ ran = << >>
    /\ fault = "none"
    /\ twin = [db |-> EmptyStore, disk |-> EmptyStore, results |-> NoResults,
               ran |-> << >>]
    /\ paths = DefaultPaths
    /\ derived = << >>

Next == AddTeams \/ AddPlayers \/ AddResults \/ InsertNcaawResults \/ InitDb

Spec == Init /\ [][Next]_vars

-----------------------------------------------------------------------------
(* build_database: the registry and the three slice functions *)

\* A league that register_fetchers does not register and that a caller has
\* registered a fetcher of each kind for (FetcherRegistry.register_*).
Extra == "AVP"

Requestable == Leagues \cup {Extra}

\* The keys of the results dictionary.
ResultKeys == {"teams", "players", "schedules"}

\* registry.get_<kind>_fetcher(league) returns a fetcher.
HasFetcher(key, l) ==
    CASE key = "teams" -> l \in Leagues \cup {Extra}
      [] key = "players" -> l \in Leagues \cup {Extra}
      [] key = "schedules" -> l \in {"LOVB", "PVF", "NCAAM"} \cup {Extra}

\* What a call of a fetcher does: it raises, or it returns a list of records.
Raises == [raised |-> TRUE, data |-> << >>]

Returns(data) == [raised |-> FALSE, data |-> data]

\* The team fetches: nothing, one team, and a batch whose second record
\* the table rejects (its name is None).
TeamFetches ==
    {Raises, Returns(<< >>), Returns(<<Atlanta>>),
     Returns(<<Atlanta, Nameless>>)}

\* The player fetches: nothing, a batch with one player of an unknown
\* team, a batch whose second record lacks a bound field, and a batch in
\* which no record names a team that any team record has.
PlayerFetches ==
    {Raises, Returns(<< >>), Returns(<<Poulter, CookUnknownTeam>>),
     Returns(<<Poulter, CookNoHeight>>),
     Returns(<<CookUnknownTeam, CookNoTeam>>)}

\* The schedule fetches: nothing, two matches, and a batch whose second
\* record lacks a bound field.
ScheduleFetches(l) ==
    IF l \in Leagues
    THEN {Raises, Returns(<< >>),
          Returns(<<MatchRecord(l, Match123456), MatchRecord(l, MatchNoId)>>),
          Returns(<<MatchRecord(l, MatchNoIdAgain),
                    MatchRecord(l, MatchNoScore)>>)}
    ELSE {Raises, Returns(<< >>), Returns(<<[match_id |-> "123456"]>>)}

\* A slice that returned: the store it leaves, the count it returns, how it
\* ended (status, and for an exception where it came from).
Returned(st, count, status) ==
    [db |-> st.db, disk |-> st.disk, count |-> count, status |-> status,
     cause |-> "none", escaped |-> FALSE]

\* Mutant of except_Exception: no handler, the exception leaves the slice.
no_except(st, cause) ==
    [db |-> st.db, disk |-> st.disk, count |-> 0, status |-> "error",
     cause |-> cause, escaped |-> TRUE]

\* The handler of each slice function: except Exception, log, return 0.
\* The store stays as the failed statement left it.
except_Exception(st, cause) ==
    [db |-> st.db, disk |-> st.disk, count |-> 0, status |-> "error",
     cause |-> cause, escaped |-> FALSE]

\* The end of the try body, r being what the league's Database method did:
\* its exception goes to the handler, its count is returned.
Wrote(r) ==
    IF r.raised
    THEN except_Exception(StoreOf(r), "write")
    ELSE Returned(StoreOf(r), r.ret, "ok")

\* Mutant of fetch_and_add_teams: no early return for an empty fetch.
fetch_and_add_teams_unchecked(st, l, f) ==
    IF f.raised
    THEN except_Exception(st, "fetcher")
    ELSE IF l \notin Leagues
         THEN except_Exception(st, "dispatch")
         ELSE Wrote(add_teams(st, l, f.data))

\* The if/elif chain of fetch_and_add_teams and fetch_and_add_players has no
\* else: for a league outside it count is never bound and the logging line
\* raises UnboundLocalError.
fetch_and_add_teams(st, l, f) ==
    IF f.raised
    THEN except_Exception(st, "fetcher")
    ELSE IF f.data = << >>
         THEN Returned(st, 0, "empty")
         ELSE IF l \notin Leagues
              THEN except_Exception(st, "dispatch")
              ELSE Wrote(add_teams(st, l, f.data))

fetch_and_add_players(st, l, f) ==
    IF f.raised
    THEN except_Exception(st, "fetcher")
    ELSE IF f.data = << >>
         THEN Returned(st, 0, "empty")
         ELSE IF l \notin Leagues
              THEN except_Exception(st, "dispatch")
              ELSE Wrote(add_players(st, l, f.data))

\* Mutant of fetch_and_add_schedule: the fetcher is called outside the try.
fetch_and_add_schedule_unguarded(st, l, f) ==
    IF f.raised
    THEN no_except(st, "fetcher")
    ELSE IF f.data = << >>
         THEN Returned(st, 0, "empty")
         ELSE IF l \notin {"LOVB", "PVF", "NCAAM"}
              THEN Returned(st, 0, "nomethod")
              ELSE Wrote(add_results(st, l, f.data))

\* The chain of fetch_and_add_schedule ends in an else branch that returns 0.
fetch_and_add_schedule(st, l, f) ==
    IF f.raised
    THEN except_Exception(st, "fetcher")
    ELSE IF f.data = << >>
         THEN Returned(st, 0, "empty")
         ELSE IF l \notin {"LOVB", "PVF", "NCAAM"}
              THEN Returned(st, 0, "nomethod")
              ELSE Wrote(add_results(st, l, f.data))

-----------------------------------------------------------------------------
(* build_database: the per-league loop *)

\* Mutant of PhaseOrder: the roster block ahead of the team block.
PlayersFirst == <<"players", "teams", "schedules">>

\* The order of the three blocks in the body of the loop.
PhaseOrder == <<"teams", "players", "schedules">>

\* The position after the block at position p.
Advance(p) ==
    IF p.phase = "begin"
    THEN [p EXCEPT !.phase = PhaseOrder[1]]
    ELSE LET k == CHOOSE k \in 1..Len(PhaseOrder) : PhaseOrder[k] = p.phase
         IN  IF k < Len(PhaseOrder)
             THEN [p EXCEPT !.phase = PhaseOrder[k + 1]]
             ELSE IF p.i < Len(leagues)
                  THEN [i |-> p.i + 1, phase |-> "begin"]
                  ELSE [p EXCEPT !.phase = "return"]

\* The position of a run that an exception has left.
Aborted == [i |-> 0, phase |-> "aborted"]

\* results["teams"][league] = 0, and the same for players and schedules.
InitCounts(res, l) == [k \in ResultKeys |-> (l :> 0) @@ res[k]]

\* results[key][league] = count.
SetCount(res, key, l, count) ==
    [res EXCEPT ![key] = (l :> count) @@ res[key]]

\* The team_id values of a league's team table in a view of the store.
TeamIds(d, l) ==
    IF l \in Leagues THEN ColumnValues(d["teams"][l], "team_id") ELSE {}

\* The history entry of an executed slice: the fetch, what the slice
\* returned, and the league's team table as the slice found it.
Entry(st, key, l, f, r) ==
    [league |-> l, kind |-> key, fetched |-> f, count |-> r.count,
     status |-> r.status, cause |-> r.cause,
     seen |-> TeamIds(st.db, l), committed |-> TeamIds(st.disk, l)]

\* A run (its store, results and history) after a slice that did r.
AfterSlice(run, key, l, f, r) ==
    [db |-> r.db, disk |-> r.disk,
     results |-> IF r.escaped THEN run.results
                 ELSE SetCount(run.results, key, l, r.count),
     ran |-> Append(run.ran, Entry(run, key, l, f, r))]

\* The run the variables hold.
Run == [db |-> db, disk |-> disk, results |-> results, ran |-> ran]

\* The same run when the fetcher that raises in this one returns f.
TwinFetch(key, l, f) ==
    IF key = "schedules" /\ l = fault
    THEN {g \in ScheduleFetches(l) : ~g.raised}
    ELSE {f}

\* The fetches a slice can see in this run.
Fetches(key, l) ==
    CASE key = "teams" -> TeamFetches
      [] key = "players" -> PlayerFetches
      [] key = "schedules" ->
            IF l = fault THEN {Raises} ELSE ScheduleFetches(l)

\* for league in leagues: the counts of the league start at 0.
BeginLeague ==
    /\ pc.phase = "begin"
    /\ results' = InitCounts(results, leagues[pc.i])
    /\ twin' = [twin EXCEPT !.results = InitCounts(@, leagues[pc.i])]
    /\ pc' = Advance(pc)
    /\ UNCHANGED <<storeVars, leagues, toggles, ran, fault, args, summary,
                   paths, idVars>>

\* if should_import_teams: ... fetch_and_add_teams(db, league, team_fetcher)
TeamSlice ==
    /\ pc.phase = "teams"
    /\ \E l \in {leagues[pc.i]} :
          IF toggles.teams /\ HasFetcher("teams", l)
          THEN \E f \in Fetches("teams", l) :
                 \E r \in {fetch_and_add_teams(Run, l, f)},
                    t \in {fetch_and_add_teams(twin, l, f)} :
                     /\ db' = r.db
                     /\ disk' = r.disk
                     /\ results' = AfterSlice(Run, "teams", l, f, r).results
                     /\ ran' = AfterSlice(Run, "teams", l, f, r).ran
                     /\ twin' = AfterSlice(twin, "teams", l, f, t)
                     /\ pc' = IF r.escaped THEN Aborted ELSE Advance(pc)
          ELSE /\ pc' = Advance(pc)
               /\ UNCHANGED <<db, disk, results, ran, twin>>
    /\ UNCHANGED <<failed, scope, leagues, toggles, fault, args, summary,
                   paths, idVars>>

\* if import_rosters: ... fetch_and_add_players(db, league, player_fetcher)
PlayerSlice ==
    /\ pc.phase = "players"
    /\ \E l \in {leagues[pc.i]} :
          IF toggles.rosters /\ HasFetcher("players", l)
          THEN \E f \in Fetches("players", l) :
                 \E r \in {fetch_and_add_players(Run, l, f)},
                    t \in {fetch_and_add_players(twin, l, f)} :
                     /\ db' = r.db
                     /\ disk' = r.disk
                     /\ results' = AfterSlice(Run, "players", l, f, r).results
                     /\ ran' = AfterSlice(Run, "players", l, f, r).ran
                     /\ twin' = AfterSlice(twin, "players", l, f, t)
                     /\ pc' = IF r.escaped THEN Aborted ELSE Advance(pc)
          ELSE /\ pc' = Advance(pc)
               /\ UNCHANGED <<db, disk, results, ran, twin>>
    /\ UNCHANGED <<failed, scope, leagues, toggles, fault, args, summary,
                   paths, idVars>>

\* if import_schedules: ... fetch_and_add_schedule(db, league, fetcher)
ScheduleSlice ==
    /\ pc.phase = "schedules"
    /\ \E l \in {leagues[pc.i]} :
          IF toggles.schedules /\ HasFetcher("schedules", l)
          THEN \E f \in Fetches("schedules", l) :
                 \E g \in TwinFetch("schedules", l, f) :
                   \E r \in {fetch_and_add_schedule(Run, l, f)},
                      t \in {fetch_and_add_schedule(twin, l, g)} :
                       /\ db' = r.db
                       /\ disk' = r.disk
                       /\ results' =
                             AfterSlice(Run, "schedules", l, f, r).results
                       /\ ran' = AfterSlice(Run, "schedules", l, f, r).ran
                       /\ twin' = AfterSlice(twin, "schedules", l, g, t)
                       /\ pc' = IF r.escaped THEN Aborted ELSE Advance(pc)
          ELSE /\ pc' = Advance(pc)
               /\ UNCHANGED <<db, disk, results, ran, twin>>
    /\ UNCHANGED <<failed, scope, leagues, toggles, fault, args, summary,
                   paths, idVars>>

\* sum(counts.values())
RECURSIVE sum(_)
sum(counts) ==
    IF DOMAIN counts = {}
    THEN 0
    ELSE LET l == CHOOSE l \in DOMAIN counts : TRUE
         IN  counts[l] + sum([m \in DOMAIN counts \ {l} |-> counts[m]])

\* The totals log_build_summary logs.
log_build_summary(res) ==
    [teams |-> sum(res["teams"]), players |-> sum(res["players"]),
     matches |-> sum(res["schedules"])]

\* What print_results_summary prints: a line per league, and a total line.
print_results_summary(ls, res) ==
    [lines |-> [i \in 1..Len(ls) |->
                   [league |-> ls[i],
                    teams |-> get(res["teams"], ls[i], 0),
                    players |-> get(res["players"], ls[i], 0)]],
     total |-> [teams |-> sum(res["teams"]),
                players |-> sum(res["players"])]]

\* log_build_summary(results); return results
Return ==
    /\ pc.phase = "return"
    /\ pc' = [pc EXCEPT !.phase = "done"]
    /\ summary' = [summary EXCEPT !.log = <<log_build_summary(results)>>]
    /\ UNCHANGED <<storeVars, leagues, toggles, results, ran, fault, twin,
                   args, paths, idVars>>

\* main after build_database has returned: the copies of the database
\* file, then print_results_summary.
PrintSummary ==
    /\ pc.phase = "done"
    /\ pc' = [pc EXCEPT !.phase = "printed"]
    /\ paths' = [paths EXCEPT !.stores = copy_database_files(paths)]
    /\ summary' =
          [summary EXCEPT !.printed = <<print_results_summary(leagues, results)>>]
    /\ UNCHANGED <<storeVars, leagues, toggles, results, ran, fault, twin,
                   args, idVars>>

\* The leagues argument: one league, or two different leagues, each
\* league once in the first and once in the second place.
LeagueLists ==
    {<<l>> : l \in Requestable}
        \cup {<<"LOVB", "PVF">>, <<"PVF", "NCAAM">>, <<"NCAAM", "NCAAW">>,
              <<"NCAAW", Extra>>, <<Extra, "LOVB">>}

\* The store a build finds: a new database, or one in which an earlier
\* build has left a team in every league's team table.
EarlierBuild ==
    [EmptyStore EXCEPT !["teams"] =
        [l \in Leagues |-> SetToBag({RowOf(Atlanta, "teams", l)})]]

PriorStores == {EmptyStore, EarlierBuild}

\* The state of build_database when it enters the loop: init_db has opened
\* the store and created the tables that were missing.
BuildStart ==
    /\ db \in PriorStores
    /\ disk = db
    /\ failed = {}
    /\ scope = "LOVB"
    /\ leagues \in LeagueLists
    /\ args \in CommandLines
    /\ toggles = import_flags(args)
    /\ summary = NoSummary
    /\ pc = [i |-> 1, phase |-> "begin"]
    /\ results = NoResults
    /\ ran = << >>
    /\ fault \in {"none"} \cup
                 {leagues[i] : i \in {j \in 1..Len(leagues) :
                     toggles.schedules /\ HasFetcher("schedules", leagues[j])}}
    /\ twin = [db |-> db, disk |-> db, results |-> NoResults, ran |-> << >>]
    /\ derived = << >>

\* A run with neither --db-path nor --no-api nor --no-local.
InitBuild == BuildStart /\ paths = DefaultPaths

NextBuild ==
    \/ BeginLeague
    \/ TeamSlice
    \/ PlayerSlice
    \/ ScheduleSlice
    \/ Return
    \/ PrintSummary

SpecBuild == InitBuild /\ [][NextBuild]_vars

\* The runs of main with every combination of --no-api and --no-local, with
\* and without --db-path, of one league and no import flag.
InitMain ==
    /\ BuildStart
    /\ Len(leagues) = 1
    /\ args = NoFlags
    /\ fault = "none"
    /\ paths \in {Opened(a) : a \in PathArgs}

SpecMain == InitMain /\ [][NextBuild]_vars

(***************************************************************************)
(* The fetchers derive identifiers from raw records, one record after      *)
(* another.                                                                *)
(***************************************************************************)

\* The number of derivations a history keeps.
MaxDerived == 2

Prefixes == {<< >>, Site, Site \o <<"/", "x">>}

DigitStrings == {<<"7">>, <<"1", "2">>, <<"0", "0", "7">>,
                 <<"1", "2", "3", "4", "5", "6">>}

\* <prefix>/contests/<digits>/box_score
BoxScoreUrl(prefix, digits) == prefix \o ContestsLiteral \o digits \o BoxScore

BoxScoreUrls == {BoxScoreUrl(p, d) : p \in Prefixes, d \in DigitStrings}

\* URLs with no /contests/<digits>/ segment: the empty URL, a site, a team
\* page, a contest id that ends the URL, an empty and a non-numeric id.
OtherUrls ==
    {<< >>,
     Site,
     Site \o <<"/", "t", "/", "1", "2">>,
     Site \o ContestsLiteral \o <<"1", "2">>,
     Site \o ContestsLiteral \o BoxScore,
     Site \o ContestsLiteral \o <<"x", "1">> \o BoxScore}

Urls == BoxScoreUrls \cup OtherUrls

\* One derivation: the function applied, its input and what it gave.
Derivation(by, raw, r) ==
    [by |-> by, raw |-> raw, raised |-> r.raised, id |-> r.id]

\* insert_ncaaw_results.py derives the match_id of a record.
ExtractMatchId ==
    /\ Len(derived) < MaxDerived
    /\ \E url \in Urls :
          derived' = Append(derived,
                            Derivation("extract_match_id", url,
                                       [raised |-> FALSE,
                                        id |-> extract_match_id(url)]))
    /\ UNCHANGED <<storeVars, buildVars>>

\* parse_box_score of the NCAA men's schedule derives the match_id.
ParseBoxScore ==
    /\ Len(derived) < MaxDerived
    /\ \E url \in Urls :
          derived' = Append(derived,
                            Derivation("parse_box_score", url,
                                       ncaam_match_id(url)))
    /\ UNCHANGED <<storeVars, buildVars>>

\* Names as the sites give them.
Names ==
    {<< >>,
     <<"A", "l", " ", "B">>,
     <<" ", "A", "L", " ", " ", "b", " ">>,
     <<"A", "l", " ", "B", " ">> \o FoundingAthlete}

\* Roster items of the LOVB roster file.
LovbItems == {[Name |-> n] : n \in Names}

\* Player objects of the PVF roster API.
PvfPlayers ==
    {[first_name |-> <<"A", "l">>, last_name |-> <<"B">>],
     [first_name |-> <<"A", "L">>, last_name |-> <<"b">>],
     [first_name |-> << >>, last_name |-> << >>],
     [last_name |-> <<"B">>]}

\* Rows of the NCAA roster table.
NcaaRows ==
    {[name |-> "Al B"],
     ("Player URL" :> << >>),
     ("Player URL" :> <<"/", "p", "/", "1", "2">>),
     ("Player URL" :> <<"/", "p", "/", "1", "2", "/">>)}

\* fetch_lovb_players derives the player_id of a roster item.
LovbPlayerId ==
    /\ Len(derived) < MaxDerived
    /\ \E item \in LovbItems :
          derived' = Append(derived,
                            Derivation("lovb_player_id", item,
                                       lovb_player_id(item)))
    /\ UNCHANGED <<storeVars, buildVars>>

\* fetch_pvf_players derives the player_id of a roster entry.
PvfPlayerId ==
    /\ Len(derived) < MaxDerived
    /\ \E player_data \in PvfPlayers :
          derived' = Append(derived,
                            Derivation("pvf_player_id", player_data,
                                       pvf_player_id(player_data)))
    /\ UNCHANGED <<storeVars, buildVars>>

\* fetch_ncaam_players derives the player_id of a roster row.
NcaaPlayerId ==
    /\ Len(derived) < MaxDerived
    /\ \E row \in NcaaRows :
          derived' = Append(derived,
                            Derivation("ncaa_player_id", row,
                                       ncaa_player_id(row)))
    /\ UNCHANGED <<storeVars, buildVars>>

\* fetch_lovb_schedule derives the id of a team of a match.
GenerateTeamId ==
    /\ Len(derived) < MaxDerived
    /\ \E team_name \in Names :
          derived' = Append(derived,
                            Derivation("generate_team_id", team_name,
                                       [raised |-> FALSE,
                                        id |-> generate_team_id(team_name)]))
    /\ UNCHANGED <<storeVars, buildVars>>

\* The six LOVB teams: the display name the schedule page shows and the
\* URL of the roster page.
LovbTeams ==
    {[display |->
        <<"L", "O", "V", "B", " ", "A", "t", "l", "a", "n", "t", "a">>,
     roster_url |->
        <<"/", "t", "e", "a", "m", "s", "/", "l", "o", "v", "b", "-", "a",
          "t", "l", "a", "n", "t", "a", "-", "v", "o", "l", "l", "e", "y",
          "b", "a", "l", "l", "/", "r", "o", "s", "t", "e", "r">>],
    [display |->
        <<"L", "O", "V", "B", " ", "S", "a", "l", "t", " ", "L", "a", "k",
          "e">>,
     roster_url |->
        <<"/", "t", "e", "a", "m", "s", "/", "l", "o", "v", "b", "-", "s",
          "a", "l", "t", "-", "l", "a", "k", "e", "-", "v", "o", "l", "l",
          "e", "y", "b", "a", "l", "l", "/", "r", "o", "s", "t", "e", "r">>],
    [display |->
        <<"L", "O", "V", "B", " ", "A", "u", "s", "t", "i", "n">>,
     roster_url |->
        <<"/", "t", "e", "a", "m", "s", "/", "l", "o", "v", "b", "-", "a",
          "u", "s", "t", "i", "n", "-", "v", "o", "l", "l", "e", "y", "b",
          "a", "l", "l", "/", "r", "o", "s", "t", "e", "r">>],
    [display |->
        <<"L", "O", "V", "B", " ", "H", "o", "u", "s", "t", "o", "n">>,
     roster_url |->
        <<"/", "t", "e", "a", "m", "s", "/", "l", "o", "v", "b", "-", "h",
          "o", "u", "s", "t", "o", "n", "-", "v", "o", "l", "l", "e", "y",
          "b", "a", "l", "l", "/", "r", "o", "s", "t", "e", "r">>],
    [display |->
        <<"L", "O", "V", "B", " ", "M", "a", "d", "i", "s", "o", "n">>,
     roster_url |->
        <<"/", "t", "e", "a", "m", "s", "/", "l", "o", "v", "b", "-", "m",
          "a", "d", "i", "s", "o", "n", "-", "v", "o", "l", "l", "e", "y",
          "b", "a", "l", "l", "/", "r", "o", "s", "t", "e", "r">>],
    [display |->
        <<"L", "O", "V", "B", " ", "O", "m", "a", "h", "a">>,
     roster_url |->
        <<"/", "t", "e", "a", "m", "s", "/", "l", "o", "v", "b", "-", "o",
          "m", "a", "h", "a", "-", "v", "o", "l", "l", "e", "y", "b", "a",
          "l", "l", "/", "r", "o", "s", "t", "e", "r">>]}

\* fetch_lovb_schedule derives the team id of a team of a match.
LovbMatchTeamId ==
    /\ Len(derived) < MaxDerived
    /\ \E t \in LovbTeams :
          derived' = Append(derived,
                            Derivation("lovb_match_team_id", t.display,
                                       [raised |-> FALSE,
                                        id |-> lovb_match_team_id(t.display)]))
    /\ UNCHANGED <<storeVars, buildVars>>

\* fetch_lovb_players assigns the team_id of a roster item.
LovbRosterTeamId ==
    /\ Len(derived) < MaxDerived
    /\ \E t \in LovbTeams :
          derived' = Append(derived,
                            Derivation("lovb_roster_team_id", t.roster_url,
                                       lovb_roster_team_id(t.roster_url)))
    /\ UNCHANGED <<storeVars, buildVars>>

InitIds == Init /\ scope = "NCAAW"

NextIds ==
    \/ ExtractMatchId
    \/ ParseBoxScore
    \/ LovbPlayerId
    \/ PvfPlayerId
    \/ NcaaPlayerId
    \/ GenerateTeamId
    \/ LovbMatchTeamId
    \/ LovbRosterTeamId

SpecIds == InitIds /\ [][NextIds]_vars

(***************************************************************************)
(* The fetchers normalise one source record after another; no record's     *)
(* normalisation reads what an earlier one left.                           *)
(***************************************************************************)

\* str.split(sep) for a separator of any length.
RECURSIVE split_on(_, _)
split_on(s, sep) ==
    IF ~Contains(s, sep)
    THEN <<s>>
    ELSE LET p == CHOOSE p \in 1..Len(s) :
                     OccursAt(s, sep, p) /\ \A q \in 1..(p - 1) : ~OccursAt(s, sep, q)
         IN  <<SubSeq(s, 1, p - 1)>>
                 \o split_on(SubSeq(s, p + Len(sep), Len(s)), sep)

At == <<" ", "a", "t", " ">>

Vs == <<" ", "v", "s", " ">>

VsDot == <<" ", "v", "s", ".", " ">>

AllStar == <<"A", "l", "l", "-", "S", "t", "a", "r">>

\* A value of the API's JSON: an integer, a string or null, with its text.
Number(text) == [t |-> "int", v |-> text]

String(text) == [t |-> "str", v |-> text]

Null == [t |-> "null", v |-> << >>]

\* The truth value Python gives a JSON value: 0, "" and None are false.
Truthy(x) ==
    CASE x.t = "int" -> x.v # <<"0">>
      [] x.t = "str" -> x.v # << >>
      [] OTHER -> FALSE

\* a or b, on strings.
Or(a, b) == IF a # << >> THEN a ELSE b

\* fetch_pvf_schedules: home and away team of the title; the unpacking of a
\* split that does not give two pieces raises ValueError.
TitleTeams(title) ==
    LET sep == IF Contains(title, At) THEN At
               ELSE IF Contains(title, Vs) THEN Vs
               ELSE IF Contains(title, VsDot) THEN VsDot
               ELSE << >>
        pieces == IF sep = << >> THEN << >> ELSE split_on(title, sep)
    IN  IF sep = << >>
        THEN [valid |-> FALSE, raised |-> FALSE, home |-> << >>,
              away |-> << >>]
        ELSE IF Len(pieces) # 2
        THEN [valid |-> TRUE, raised |-> TRUE, home |-> << >>, away |-> << >>]
        ELSE IF sep = At
        THEN [valid |-> TRUE, raised |-> FALSE, home |-> strip(pieces[2]),
              away |-> strip(pieces[1])]
        ELSE [valid |-> TRUE, raised |-> FALSE, home |-> strip(pieces[1]),
              away |-> strip(pieces[2])]

\* home_details / away_details.
Details(id, name, score) == [id |-> id, name |-> name, score |-> score]

\* fetch_pvf_schedules: which API team is home and which is away.
HomeAway(game, home_team, away_team) ==
    LET first_team_name  == game.first_team_name
        second_team_name == game.second_team_name
        first  == [id |-> replace(lower(first_team_name), <<" ">>, <<"-">>),
                   score |-> game.first_team_score]
        second == [id |-> replace(lower(second_team_name), <<" ">>, <<"-">>),
                   score |-> game.second_team_score]
        first_home ==
            [home |-> Details(first.id, Or(first_team_name, home_team),
                              first.score),
             away |-> Details(second.id, Or(second_team_name, away_team),
                              second.score)]
        second_home ==
            [home |-> Details(second.id, Or(second_team_name, home_team),
                              second.score),
             away |-> Details(first.id, Or(first_team_name, away_team),
                              first.score)]
    IN  IF \/ Contains(lower(home_team), lower(first_team_name))
           \/ Contains(lower(first_team_name), lower(home_team))
        THEN first_home
        ELSE IF \/ Contains(lower(home_team), lower(second_team_name))
                \/ Contains(lower(second_team_name), lower(home_team))
        THEN second_home
        ELSE IF game.venue_type = "home"
        THEN first_home
        ELSE IF game.venue_type = "away"
        THEN second_home
        ELSE [home |-> Details(<< >>, home_team, String(<< >>)),
              away |-> Details(<< >>, away_team, String(<< >>))]

\* fetch_pvf_schedules: the score string.
score_text(game, home_details, away_details) ==
    IF Truthy(home_details.score) /\ Truthy(away_details.score)
    THEN home_details.score.v \o <<"-">> \o away_details.score.v
    ELSE game.result_text

\* No entry: the game is skipped.
NoEntry ==
    [emitted |-> FALSE, home_team_id |-> << >>, home_team_name |-> << >>,
     away_team_id |-> << >>, away_team_name |-> << >>, score |-> << >>]

\* fetch_pvf_schedules: the match entry of a game.  An All-Star game and a
\* game whose title has no separator are skipped, and so is a game whose
\* processing raises.
pvf_match_entry(game) ==
    LET title == game.title
        teams == TitleTeams(title)
    IN  IF Contains(title, AllStar) \/ ~teams.valid \/ teams.raised
        THEN NoEntry
        ELSE LET d == HomeAway(game, teams.home, teams.away)
             IN  [emitted |-> TRUE,
                  home_team_id |-> d.home.id,
                  home_team_name |-> d.home.name,
                  away_team_id |-> d.away.id,
                  away_team_name |-> d.away.name,
                  score |-> score_text(game, d.home, d.away)]

\* Team names; the third plays in no title.
TeamNames == {<<"A", "t", "l">>, <<"O", "m">>, <<"V", "i", "b">>}

TitleNames == {<<"A", "t", "l">>, <<"O", "m">>}

\* Titles: two different teams with each separator, and one without any.
Titles ==
    ({x \o sep \o y : x \in TitleNames, y \in TitleNames,
                        sep \in {At, Vs, VsDot}}
        \ {x \o sep \o x : x \in TitleNames, sep \in {At, Vs, VsDot}})
        \cup {<<"A", "t", "l", " ", "O", "m">>}

\* The scores the API gives: none, null, the numbers 0 and 3, the text "0".
Scores == {String(<< >>), Null, Number(<<"0">>), Number(<<"3">>),
           String(<<"0">>)}

\* Games of the schedule API: the API names two different teams, or leaves
\* a name empty.
Games ==
    {g \in [title : Titles,
            first_team_name : TeamNames \cup {<< >>},
            second_team_name : TeamNames \cup {<< >>},
            first_team_score : Scores,
            second_team_score : Scores,
            venue_type : {"home", "away", ""},
            result_text : {<<"W">>}] :
        g.first_team_name # g.second_team_name}

(* fetch_ncaam_schedule, fetch_ncaaw_schedule: the time of a box score *)

DigitChars == <<"0", "1", "2", "3", "4", "5", "6", "7", "8", "9">>

DigitValue(c) == (CHOOSE n \in 1..10 : DigitChars[n] = c) - 1

\* int(text) of a run of digits.
RECURSIVE int(_)
int(text) ==
    IF text = << >>
    THEN 0
    ELSE int(SubSeq(text, 1, Len(text) - 1)) * 10 + DigitValue(text[Len(text)])

\* str(n) of a natural number.
RECURSIVE str(_)
str(n) ==
    IF n < 10 THEN <<DigitChars[n + 1]>> ELSE str(n \div 10) \o <<DigitChars[(n % 10) + 1]>>

\* f"{hour:02d}"
format_02d(hour) == IF hour < 10 THEN <<"0">> \o str(hour) ELSE str(hour)

upper_char(c) ==
    CASE c = "a" -> "A"
      [] c = "p" -> "P"
      [] c = "m" -> "M"
      [] OTHER -> c

upper(s) == [i \in 1..Len(s) |-> upper_char(s[i])]

\* The index of the first character at or after p that is no whitespace.
RECURSIVE SkipSpace(_, _)
SkipSpace(s, p) ==
    IF p <= Len(s) /\ s[p] \in Whitespace THEN SkipSpace(s, p + 1) ELSE p

\* (\d{1,2}):(\d{2})\s*([APM]{2}) matches at p with an hour of k digits.
TimeMatchAt(s, p, k) ==
    /\ p + k + 2 <= Len(s)
    /\ \A i \in p..(p + k - 1) : s[i] \in Digit
    /\ s[p + k] = ":"
    /\ s[p + k + 1] \in Digit
    /\ s[p + k + 2] \in Digit
    /\ LET q == SkipSpace(s, p + k + 3)
       IN  /\ q + 1 <= Len(s)
           /\ s[q] \in {"A", "P", "M"}
           /\ s[q + 1] \in {"A", "P", "M"}

\* re.search of the pattern: the leftmost match, the longer hour first.
time_pattern(row_text) ==
    LET at == {p \in 1..Len(row_text) :
                  TimeMatchAt(row_text, p, 2) \/ TimeMatchAt(row_text, p, 1)}
    IN  IF at = {}
        THEN [found |-> FALSE, hour |-> << >>, minute |-> << >>,
              am_pm |-> << >>]
        ELSE LET p == CHOOSE p \in at : \A q \in at : p <= q
                 k == IF TimeMatchAt(row_text, p, 2) THEN 2 ELSE 1
                 q == SkipSpace(row_text, p + k + 3)
             IN  [found |-> TRUE,
                  hour |-> SubSeq(row_text, p, p + k - 1),
                  minute |-> SubSeq(row_text, p + k + 1, p + k + 2),
                  am_pm |-> SubSeq(row_text, q, q + 1)]

\* Mutant of military: midnight's hour is left as it is.
military_pm_only(hour, am_pm) ==
    IF am_pm = <<"P", "M">> /\ hour < 12
    THEN hour + 12
    ELSE hour

\* Convert to military time.
military(hour, am_pm) ==
    IF am_pm = <<"P", "M">> /\ hour < 12
    THEN hour + 12
    ELSE IF am_pm = <<"A", "M">> /\ hour = 12
    THEN 0
    ELSE hour

\* match_data["time"] of a row of the box score; not set without a match.
match_time(row_text) ==
    LET m == time_pattern(row_text)
    IN  IF ~m.found
        THEN [set |-> FALSE, time |-> << >>]
        ELSE [set |-> TRUE,
              time |-> format_02d(military(int(m.hour), upper(m.am_pm)))
                           \o <<":">> \o m.minute]

\* Times of day on a twelve-hour clock: every hour, written with and
\* without a leading zero, every minute, AM and PM, with and without a space.
Minutes == {<<a, b>> : a \in {"0", "1", "2", "3", "4", "5"}, b \in Digit}

Times ==
    {t \in [hour : 1..12, padded : BOOLEAN, minute : Minutes,
            space : BOOLEAN, am_pm : {"AM", "PM"}] :
        t.padded => t.hour < 10}

\* The text of a row that shows the time.
RowText(t) ==
    (IF t.padded THEN <<"0">> ELSE << >>) \o str(t.hour) \o <<":">> \o t.minute
        \o (IF t.space THEN <<" ">> ELSE << >>)
        \o (IF t.am_pm = "AM" THEN <<"A", "M">> ELSE <<"P", "M">>)

\* The box score parser converts the time of the row it has read.
MatchTime ==
    /\ Len(derived) = 1
    /\ derived[1].by = "row"
    /\ derived' = <<[by |-> "match_time", raw |-> derived[1].raw,
                     out |-> match_time(RowText(derived[1].raw))]>>
    /\ UNCHANGED <<storeVars, buildVars>>

\* A source record the fetcher has read and not yet normalised.
Read(by, raw) == [by |-> by, raw |-> raw, out |-> NoEntry]

\* fetch_pvf_schedules normalises the game it has read.
PvfMatchEntry ==
    /\ Len(derived) = 1
    /\ derived[1].by = "game"
    /\ derived' = <<[by |-> "pvf_match_entry", raw |-> derived[1].raw,
                     out |-> pvf_match_entry(derived[1].raw)]>>
    /\ UNCHANGED <<storeVars, buildVars>>

\* The fetcher has read one source record.
InitNorm ==
    /\ db = EmptyStore
    /\ disk = EmptyStore
    /\ failed = {}
    /\ scope = "PVF"
    /\ leagues = << >>
    /\ toggles = [teams |-> TRUE, rosters |-> TRUE, schedules |-> TRUE]
    /\ args = NoFlags
    /\ summary = NoSummary
    /\ pc = Idle
    /\ results = NoResults
    /\ ran = << >>
    /\ fault = "none"
    /\ twin = [db |-> EmptyStore, disk |-> EmptyStore, results |-> NoResults,
               ran |-> << >>]
    /\ paths = DefaultPaths
    /\ derived \in {<<Read("game", game)>> : game \in Games}
                       \cup {<<Read("row", t)>> : t \in Times}

NextNorm == PvfMatchEntry \/ MatchTime

SpecNorm == InitNorm /\ [][NextNorm]_vars

-----------------------------------------------------------------------------
(* Properties of the store *)

\* The rows of a table that hold value v in the key column.
RowsWithKey(rows, kind, l, v) ==
    {r \in BagToSet(rows) : r[KeyCol(kind, l)] = v}

\* Two tables have the same row count and, for every natural key, the same
\* field values.
SameTable(t1, t2, kind, l) ==
    /\ BagCardinality(t1) = BagCardinality(t2)
    /\ \A v \in ColumnValues(t1, KeyCol(kind, l))
               \cup ColumnValues(t2, KeyCol(kind, l)) :
          RowsWithKey(t1, kind, l, v) = RowsWithKey(t2, kind, l, v)

\* C1: from every reachable store, importing a team batch (the session's
\* league is any of the four) or a results batch (lovb, pvf, ncaam) and then
\* importing the identical batch again leaves the table with the row count
\* and the field values per natural key that it had after the first import.
C1_ReimportTeamsResultsIdempotent ==
    \A l \in {scope} :
        /\ \A b \in TeamBatches :
              LET s1 == add_teams(Store, l, b)
                  s2 == add_teams(StoreOf(s1), l, b)
              IN  SameTable(s1.db["teams"][l], s2.db["teams"][l], "teams", l)
        /\ l \in SchemaLeagues("results") =>
              \A b \in ResultBatches(l) :
                  LET s1 == add_results(Store, l, b)
                      s2 == add_results(StoreOf(s1), l, b)
                  IN  SameTable(s1.db["results"][l], s2.db["results"][l],
                                "results", l)

\* C1 witness: the store is what importing a batch of two different teams
\* gives, the batch is committed, and importing it again leaves two rows.
C1_Witness ==
    \E b \in TeamBatches :
        /\ Len(b) = 2
        /\ b[1].team_id # b[2].team_id
        /\ LET s == add_teams(Store, scope, b)
           IN  /\ ~s.raised
               /\ s.db = db
               /\ disk = db
               /\ BagCardinality(s.db["teams"][scope]) = 2

\* C2: from every reachable store and for every league, importing a player
\* batch and then importing the identical batch again (team table
\* unchanged) leaves the player table with the row count it had after the
\* first import.
C2_ReimportPlayersSameCount ==
    \A l \in {scope} :
        \A b \in PlayerBatches :
            LET s1 == add_players(Store, l, b)
                s2 == add_players(StoreOf(s1), l, b)
            IN  BagCardinality(s2.db["players"][l])
                    = BagCardinality(s1.db["players"][l])

\* C3: no table of any league holds two rows with the same natural key.
C3_NaturalKeysUnique ==
    \A k \in Kinds, l \in Leagues :
        \A r \in BagToSet(db[k][l]) :
            /\ CopiesIn(r, db[k][l]) = 1
            /\ RowsWithKey(db[k][l], k, l, r[KeyCol(k, l)]) = {r}

\* C4: every row of a league's player table, in the connection's view and
\* in the committed store, has a team_id that is present in the same
\* league's team table.
C4_ReferentialIntegrity ==
    \A l \in Leagues :
        /\ ColumnValues(db["players"][l], "team_id")
              \subseteq ColumnValues(db["teams"][l], "team_id")
        /\ ColumnValues(disk["players"][l], "team_id")
              \subseteq ColumnValues(disk["teams"][l], "team_id")

\* C4 witness: a committed player row exists while the league's team table
\* holds a team.
C4_Witness ==
    /\ disk["players"][scope] # EmptyBag
    /\ disk["teams"][scope] # EmptyBag

\* The number of lines of out that name the player and the team_id.
Lines(out, name, team_id) ==
    Cardinality({i \in 1..Len(out) :
                    out[i].name = name /\ out[i].team_id = team_id})

\* C5: a player write partitions its input by membership of team_id in the
\* league's team table as read at validation time.  Each excluded record
\* gets exactly one diagnostic naming the player and the invalid team_id and
\* adds no row; each record with a valid team_id is persisted, and the write
\* returns the number of those records.
C5_PlayerWritePartitions ==
    \A l \in {scope} :
        \A b \in PlayerBatches :
            LET r     == add_players(Store, l, b)
                teams == ColumnValues(db["teams"][l], "team_id")
                In    == {i \in 1..Len(b) : b[i].team_id \in teams}
                Out   == (1..Len(b)) \ In
                old   == db["players"][l]
                new   == r.db["players"][l]
            IN  /\ Len(r.out) = Cardinality(Out)
                /\ \A i \in Out :
                      /\ Lines(r.out, b[i].name, b[i].team_id)
                            = Cardinality({j \in Out :
                                  /\ b[j].name = b[i].name
                                  /\ b[j].team_id = b[i].team_id})
                /\ \A x \in BagToSet(new) :
                      CopiesIn(x, new) > CopiesIn(x, old) =>
                          \E i \in In : x.team_id = b[i].team_id
                                        /\ x.player_id = b[i].player_id
                                        /\ x.name = b[i].name
                /\ ~r.raised
                /\ r.ret = Cardinality(In)
                /\ \A i \in In :
                      CopiesIn(RowOf(b[i], "players", l),
                               r.disk["players"][l]) > 0

\* C6: no row that a raising write left behind is ever part of the
\* committed store.
C6_FailedBatchNeverCommitted ==
    \A x \in failed : CopiesIn(x.row, disk[x.kind][x.league]) = 0

-----------------------------------------------------------------------------
(* Properties of build_database *)

\* The toggle of a key of the results dictionary.
Enabled(key) ==
    CASE key = "teams" -> toggles.teams
      [] key = "players" -> toggles.rosters
      [] key = "schedules" -> toggles.schedules

\* The slice of a league is one the run calls.
Executes(key, l) == Enabled(key) /\ HasFetcher(key, l)

\* The entries of a history that belong to a slice.
EntriesOf(h, key, l) ==
    {j \in 1..Len(h) : h[j].league = l /\ h[j].kind = key}

\* The run is over: it returned, or an exception left it.
Over == pc.phase \in {"done", "aborted"}

\* C7: when the schedule fetcher of league A (fault) raises, then by the end
\* of the run every team, player and schedule slice of every other requested
\* league B has executed and has returned the count it returns in the run
\* that differs only in A's schedule fetcher returning records, and the
\* results dictionary holds that count.
C7_OtherLeaguesUnaffected ==
    (Over /\ fault # "none") =>
        \A i \in 1..Len(leagues) :
            leagues[i] # fault =>
                \A key \in ResultKeys :
                    /\ leagues[i] \in DOMAIN results[key]
                    /\ leagues[i] \in DOMAIN twin.results[key]
                    /\ results[key][leagues[i]]
                          = twin.results[key][leagues[i]]
                    /\ Executes(key, leagues[i]) =>
                          /\ EntriesOf(ran, key, leagues[i]) # {}
                          /\ \A j \in EntriesOf(ran, key, leagues[i]) :
                                \E k \in EntriesOf(twin.ran, key, leagues[i]) :
                                    /\ ran[j].count = twin.ran[k].count
                                    /\ ran[j].status = twin.ran[k].status

\* C7 witness: a finished run of two leagues in which the schedule fetcher
\* of the first raised, the same fetcher's records were written in the other
\* run, and the three slices of the second league each imported records.
C7_Witness ==
    /\ pc.phase = "done"
    /\ Len(leagues) = 2
    /\ fault = leagues[1]
    /\ \E j \in EntriesOf(ran, "schedules", fault) :
          ran[j].cause = "fetcher"
    /\ twin.results["schedules"][fault] > 0
    /\ \A key \in ResultKeys : results[key][leagues[2]] > 0

\* C8: no exception leaves a slice.  The run is never left by an exception,
\* a slice that ended in the handler returned 0 and 0 is what the results
\* dictionary holds for it, and when the run has returned the dictionary
\* holds an entry for every requested league under each of its three keys.
C8_ExceptionsContained ==
    /\ pc.phase # "aborted"
    /\ \A j \in 1..Len(ran) :
          ran[j].status = "error" =>
              /\ ran[j].count = 0
              /\ ran[j].league \in DOMAIN results[ran[j].kind]
              /\ results[ran[j].kind][ran[j].league] = 0
    /\ pc.phase = "done" =>
          \A i \in 1..Len(leagues), key \in ResultKeys :
              leagues[i] \in DOMAIN results[key]

\* C8 witness: a run has returned in which a fetcher raised, the league
\* dispatch raised and a write of the store raised.
C8_Witness ==
    /\ pc.phase = "done"
    /\ \A c \in {"fetcher", "dispatch", "write"} :
          \E j \in 1..Len(ran) : ran[j].status = "error" /\ ran[j].cause = c

\* The player slice that the step has just executed was handed records of
\* which none names a team of the league's team table.
NothingValid(e) ==
    /\ e.kind = "players"
    /\ e.league \in Leagues
    /\ ~e.fetched.raised
    /\ e.fetched.data # << >>
    /\ \A i \in 1..Len(e.fetched.data) :
          e.fetched.data[i].team_id \notin TeamIds(db, e.league)

\* C9: a player slice whose records name no team of the league's team table
\* (the table is empty, or holds other teams) changes neither the
\* connection's view nor the committed store, raises nothing, returns 0
\* without passing through the handler, and the orchestrator records 0.
C9_NothingValidPersistsNothing ==
    [][ (Len(ran') > Len(ran) /\ NothingValid(ran'[Len(ran')])) =>
            /\ db' = db
            /\ disk' = disk
            /\ ran'[Len(ran')].count = 0
            /\ ran'[Len(ran')].status = "ok"
            /\ results'["players"][ran'[Len(ran')].league] = 0
            /\ pc'.phase # "aborted" ]_vars

\* C9 witness: one player slice found the team table empty, another found a
\* team in it that none of its records names; both returned 0 and 0 is
\* recorded for both.
C9_Witness ==
    \E j \in 1..Len(ran), k \in 1..Len(ran) :
        /\ ran[j].kind = "players" /\ ran[k].kind = "players"
        /\ ran[j].league \in Leagues /\ ran[k].league \in Leagues
        /\ ran[j].seen = {} /\ ran[k].seen # {}
        /\ \A e \in {ran[j], ran[k]} :
              /\ ~e.fetched.raised
              /\ e.fetched.data # << >>
              /\ \A i \in 1..Len(e.fetched.data) :
                    e.fetched.data[i].team_id \notin e.seen
              /\ e.count = 0
              /\ e.status = "ok"
              /\ results["players"][e.league] = 0

\* The place of a league in the leagues argument.
LeagueIndex(l) == CHOOSE i \in 1..Len(leagues) : leagues[i] = l

\* The documented order of the slices of one league.
SliceRank == [teams |-> 1, players |-> 2, schedules |-> 3]

\* The team_id values of a list of records.
TeamIdsOf(data) == {data[i].team_id : i \in 1..Len(data)}

\* C10: the slices execute one after another in the order of the leagues
\* argument and, for one league, teams before players before schedule; and
\* when teams are enabled a player slice starts after the league's team
\* slice has finished: every team that slice imported is by then in the team
\* table the validation reads, and committed.
C10_SlicesInOrder ==
    /\ \A j \in 1..(Len(ran) - 1) :
          \/ LeagueIndex(ran[j].league) < LeagueIndex(ran[j + 1].league)
          \/ /\ ran[j].league = ran[j + 1].league
             /\ SliceRank[ran[j].kind] < SliceRank[ran[j + 1].kind]
    /\ \A j \in 1..Len(ran) :
          (ran[j].kind = "players" /\ Executes("teams", ran[j].league)) =>
              \E k \in 1..(j - 1) :
                  /\ ran[k].league = ran[j].league
                  /\ ran[k].kind = "teams"
                  /\ ran[k].status = "ok" =>
                        TeamIdsOf(ran[k].fetched.data)
                            \subseteq (ran[j].seen \cap ran[j].committed)

\* C10 witness: a run of two leagues has returned in which every slice of
\* the second league executed, its team slice imported a team and its player
\* slice imported a player of that team.
C10_Witness ==
    /\ pc.phase = "done"
    /\ Len(leagues) = 2
    /\ \A key \in ResultKeys : EntriesOf(ran, key, leagues[2]) # {}
    /\ results["teams"][leagues[2]] > 0
    /\ results["players"][leagues[2]] > 0
    /\ \E j \in EntriesOf(ran, "players", leagues[2]) :
          "atlanta-volleyball" \in ran[j].committed

-----------------------------------------------------------------------------
(* Properties of the write operation *)

\* The last record of data that has the key of data[i].
LastWithKey(data, i, kind, l) ==
    LET k == KeyCol(kind, l)
        j == CHOOSE j \in i..Len(data) :
                /\ data[j][k] = data[i][k]
                /\ \A n \in (j + 1)..Len(data) : data[n][k] # data[i][k]
    IN  data[j]

\* Writing data turned the table old into new by replacing and inserting:
\* each key of data has exactly one row, the row of the last record with
\* that key, and the table grew by one row per key that old did not hold.
FullyReplaced(old, new, data, kind, l) ==
    LET k == KeyCol(kind, l)
    IN  /\ \A i \in 1..Len(data) :
              LET row == RowOf(LastWithKey(data, i, kind, l), kind, l)
              IN  /\ RowsWithKey(new, kind, l, data[i][k]) = {row}
                  /\ CopiesIn(row, new) = 1
        /\ BagCardinality(new) =
              BagCardinality(old)
                + Cardinality({data[i][k] : i \in 1..Len(data)}
                                 \ ColumnValues(old, k))

\* C11: a write that returns leaves, for every natural key of its batch,
\* exactly one row, whose every data column is what the last record of the
\* batch with that key gives (NULL in a column the statement does not bind),
\* and it adds exactly one row per key the table did not hold.  Checked for
\* the team, player (validated part) and results table of the league.
C11_WriteFullyReplaces ==
    \A l \in {scope} :
        /\ \A b \in TeamBatches :
              LET r == add_teams(Store, l, b)
              IN  ~r.raised =>
                      FullyReplaced(db["teams"][l], r.db["teams"][l], b,
                                    "teams", l)
        /\ \A b \in PlayerBatches :
              LET r == add_players(Store, l, b)
                  v == processed_players(b, valid_team_ids(Store, l))
              IN  ~r.raised =>
                      FullyReplaced(db["players"][l], r.db["players"][l], v,
                                    "players", l)
        /\ l \in SchemaLeagues("results") =>
              \A b \in ResultBatches(l) :
                  LET r == add_results(Store, l, b)
                  IN  ~r.raised =>
                          FullyReplaced(db["results"][l], r.db["results"][l],
                                        b, "results", l)

\* C12: after a results import that returns, every match_id of the batch
\* has exactly one row in the league's results table, holding the values of
\* the last record of the batch with that match_id, whatever the table held
\* before and however often the batch names the match_id (the empty
\* match_id of a failed extraction included).  Checked for add_<league>_results of lovb,
\* pvf, ncaam and for insert_ncaaw_results.py of ncaaw.
C12_SameMatchIdOverwrites ==
    \A l \in {scope} :
        /\ l \in SchemaLeagues("results") =>
              \A b \in ResultBatches(l) :
                  LET r == add_results(Store, l, b)
                      k == KeyCol("results", l)
                  IN  \A i \in 1..Len(b) :
                          LET row == RowOf(LastWithKey(b, i, "results", l),
                                           "results", l)
                          IN  ~r.raised =>
                                  /\ RowsWithKey(r.disk["results"][l],
                                                 "results", l, b[i][k]) = {row}
                                  /\ CopiesIn(row, r.disk["results"][l]) = 1
        /\ l = "NCAAW" =>
              \A b \in NcaawBatches :
                  LET t == insert_ncaaw_results(disk, b)["results"][l]
                  IN  \A i \in 1..Len(b) :
                          LET id   == ncaaw_row(b[i]).match_id
                              last == CHOOSE j \in i..Len(b) :
                                          /\ ncaaw_row(b[j]).match_id = id
                                          /\ \A n \in (j + 1)..Len(b) :
                                                ncaaw_row(b[n]).match_id # id
                          IN  /\ {x \in BagToSet(t) : x.match_id = id}
                                    = {ncaaw_row(b[last])}
                              /\ CopiesIn(ncaaw_row(b[last]), t) = 1

\* C13: a write into an empty table that returns, returns the number of
\* rows the table holds afterwards: a team batch, a results batch, and a
\* player batch (whose count is that of its validated part).
C13_ReturnedCountIsRowCount ==
    \A l \in {scope} :
        /\ db["teams"][l] = EmptyBag =>
              \A b \in TeamBatches :
                  LET r == add_teams(Store, l, b)
                  IN  ~r.raised =>
                          r.ret = BagCardinality(r.db["teams"][l])
        /\ db["players"][l] = EmptyBag =>
              \A b \in PlayerBatches :
                  LET r == add_players(Store, l, b)
                  IN  ~r.raised =>
                          r.ret = BagCardinality(r.db["players"][l])
        /\ l \in SchemaLeagues("results") /\ db["results"][l] = EmptyBag =>
              \A b \in ResultBatches(l) :
                  LET r == add_results(Store, l, b)
                  IN  ~r.raised =>
                          r.ret = BagCardinality(r.db["results"][l])

\* The natural keys of the records of a batch.
BatchKeys(b, kind, l) ==
    {get(b[i], KeyCol(kind, l), None) : i \in 1..Len(b)}

\* The write of batch b to a table of league l, with outcome r, deleted
\* nothing: every key of the table, in the connection's view and in the
\* committed one, is still there; every row whose key is not in the batch
\* is there as often as before; every other table is as it was.
NothingDeleted(r, b, kind, l) ==
    LET k == KeyCol(kind, l)
    IN  /\ ColumnValues(db[kind][l], k) \subseteq ColumnValues(r.db[kind][l], k)
        /\ ColumnValues(disk[kind][l], k)
              \subseteq ColumnValues(r.disk[kind][l], k)
        /\ \A row \in BagToSet(db[kind][l]) :
              row[k] \notin BatchKeys(b, kind, l) =>
                  CopiesIn(row, r.db[kind][l]) = CopiesIn(row, db[kind][l])
        /\ \A row \in BagToSet(r.db[kind][l]) :
              row[k] \notin BatchKeys(b, kind, l) =>
                  CopiesIn(row, db[kind][l]) > 0
        /\ \A k2 \in Kinds, l2 \in Leagues :
              <<k2, l2>> # <<kind, l>> => r.db[k2][l2] = db[k2][l2]
        /\ r.db["tables"] = db["tables"]

\* C20: from every store a sequence of imports reaches, a team, a player
\* and a results import, whether it returns or raises, deletes nothing:
\* no natural key of the table it writes disappears, the rows whose key is
\* not in the batch stay as they are, and so does every other table.
C20_NoDeletionPath ==
    \A l \in {scope} :
        /\ \A b \in TeamBatches :
              NothingDeleted(add_teams(Store, l, b), b, "teams", l)
        /\ \A b \in PlayerBatches :
              NothingDeleted(add_players(Store, l, b), b, "players", l)
        /\ l \in SchemaLeagues("results") =>
              \A b \in ResultBatches(l) :
                  NothingDeleted(add_results(Store, l, b), b, "results", l)

\* Successive imports have filled the league's three tables, and the team
\* table holds two teams.
C20_Witness ==
    /\ Cardinality(ColumnValues(disk["teams"][scope], "team_id")) = 2
    /\ disk["players"][scope] # EmptyBag
    /\ disk["results"][scope] # EmptyBag

\* The store with the league's team table emptied.
WithoutTeams(st, l) ==
    [db   |-> [st.db EXCEPT !["teams"][l] = EmptyBag],
     disk |-> [st.disk EXCEPT !["teams"][l] = EmptyBag]]

\* C14: a results import does not depend on the team table: with the
\* league's team table emptied it raises or returns alike, returns the same
\* count and leaves the same results table; and when it returns, every
\* record of the batch is in the committed table (as the row of the last
\* record with its match_id), whatever its home_team_id.
C14_ResultsNotFilteredByTeams ==
    \A l \in {scope} \cap SchemaLeagues("results") :
        \A b \in ResultBatches(l) :
            LET r == add_results(Store, l, b)
                e == add_results(WithoutTeams(Store, l), l, b)
            IN  /\ e.raised = r.raised
                /\ e.ret = r.ret
                /\ e.db["results"][l] = r.db["results"][l]
                /\ ~r.raised =>
                      /\ r.ret = Len(b)
                      /\ \A i \in 1..Len(b) :
                            CopiesIn(RowOf(LastWithKey(b, i, "results", l),
                                           "results", l),
                                     r.disk["results"][l]) = 1

\* A committed results table holds a match whose home team the league's
\* team table does not hold.
C14_Witness ==
    \E l \in SchemaLeagues("results") :
        \E row \in BagToSet(disk["results"][l]) :
            row["home_team_id"]
                \notin ColumnValues(disk["teams"][l], "team_id")

\* The count the slice of a league returned in this run, 0 when the run
\* did not call it.
SliceCount(key, l) ==
    IF EntriesOf(ran, key, l) = {}
    THEN 0
    ELSE ran[CHOOSE j \in EntriesOf(ran, key, l) : TRUE].count

\* The sum over the leagues of the run of the counts their slices returned.
SliceTotal(key) ==
    sum([l \in {leagues[i] : i \in 1..Len(leagues)} |-> SliceCount(key, l)])

\* C16: when main has printed its summary, the summary has for every
\* league of the run a line with the league's team, player and schedule
\* count as the slices returned them, and every total that was logged or
\* printed is the sum over the leagues of the slices' counts.
C16_SummaryReportsAllCounts ==
    pc.phase = "printed" =>
        LET logged  == summary.log[1]
            printed == summary.printed[1]
        IN  /\ \A i \in 1..Len(leagues) :
                  \E n \in 1..Len(printed.lines) :
                      LET line == printed.lines[n]
                      IN  /\ line.league = leagues[i]
                          /\ line.teams = SliceCount("teams", leagues[i])
                          /\ line.players = SliceCount("players", leagues[i])
                          /\ "schedules" \in DOMAIN line
                          /\ line.schedules
                                = SliceCount("schedules", leagues[i])
            /\ logged.teams = SliceTotal("teams")
            /\ logged.players = SliceTotal("players")
            /\ logged.matches = SliceTotal("schedules")
            /\ printed.total.teams = SliceTotal("teams")
            /\ printed.total.players = SliceTotal("players")

\* The command line selects an entity type: its flag is given, or none of
\* the three flags is.
Selected(a, key) ==
    \/ a[IF key = "players" THEN "rosters" ELSE key]
    \/ ~(a.teams \/ a.rosters \/ a.schedules)

\* C17: main imports an entity type exactly if its flag is given or no flag
\* is given, for every combination of the three flags; in a run, every
\* slice that was called is of a selected type, the count of a type that
\* is not selected is 0 for every league, and a run that returns has
\* called the slice of every selected type for every league that has a
\* fetcher for it.
C17_SelectionDefaultsToAll ==
    /\ \A a \in Flags :
          /\ import_flags(a).teams = Selected(a, "teams")
          /\ import_flags(a).rosters = Selected(a, "players")
          /\ import_flags(a).schedules = Selected(a, "schedules")
    /\ \A key \in ResultKeys : Enabled(key) = Selected(args, key)
    /\ \A j \in 1..Len(ran) : Selected(args, ran[j].kind)
    /\ \A key \in ResultKeys :
          ~Selected(args, key) =>
              \A l \in DOMAIN results[key] : results[key][l] = 0
    /\ pc.phase \in {"done", "printed"} =>
          \A i \in 1..Len(leagues), key \in ResultKeys :
              Selected(args, key) /\ HasFetcher(key, leagues[i]) =>
                  EntriesOf(ran, key, leagues[i]) # {}

\* A run with only --schedules has returned: it called a schedule slice,
\* and the league's team and player counts are 0.
C17_Witness ==
    /\ pc.phase = "done"
    /\ args = [teams |-> FALSE, rosters |-> FALSE, schedules |-> TRUE]
    /\ \E j \in 1..Len(ran) : ran[j].kind = "schedules" /\ ran[j].count > 0
    /\ \A i \in 1..Len(leagues) :
          /\ results["teams"][leagues[i]] = 0
          /\ results["players"][leagues[i]] = 0

\* C19: in a run of the orchestrator, whose store init_db has initialised,
\* the store has the team, the player and the results table of each of the
\* four leagues, and a run that returns with schedules selected has called
\* the schedule slice of each of the four leagues it was given.
C19_EveryLeagueHasThreeTables ==
    /\ \A l \in Leagues, k \in Kinds : <<k, l>> \in disk["tables"]
    /\ pc.phase = "done" /\ Enabled("schedules") =>
          \A i \in 1..Len(leagues) :
              leagues[i] \in Leagues =>
                  EntriesOf(ran, "schedules", leagues[i]) # {}

(***************************************************************************)
(* Properties of the identifier derivations.                               *)
(***************************************************************************)

\* C15: for every URL <prefix>/contests/<digits>/box_score the match_id
\* that insert_ncaaw_results.py derives (regex) and the one parse_box_score
\* derives (second-to-last path segment) are both exactly <digits>, and
\* neither raises; for the empty URL and every URL without a
\* /contests/<digits>/ segment the regex derivation gives the empty string.
C15_MatchIdFromBoxScoreUrl ==
    \A n \in 1..Len(derived) :
        LET e == derived[n]
        IN  /\ e.by \in {"extract_match_id", "parse_box_score"} =>
                  \A p \in Prefixes, d \in DigitStrings :
                      e.raw = BoxScoreUrl(p, d) => ~e.raised /\ e.id = d
            /\ e.by = "extract_match_id" /\ e.raw \in OtherUrls =>
                  ~e.raised /\ e.id = << >>

\* Both derivations have run on one box-score URL and given 123456.
C15_Witness ==
    \E m, n \in 1..Len(derived) :
        /\ derived[m].by = "extract_match_id"
        /\ derived[n].by = "parse_box_score"
        /\ derived[m].raw = derived[n].raw
        /\ derived[m].raw \in BoxScoreUrls
        /\ derived[m].id = <<"1", "2", "3", "4", "5", "6">>
        /\ derived[n].id = derived[m].id

KnownTeam(p, l) ==
    "team_id" \in DOMAIN p /\ p["team_id"] \in valid_team_ids(Store, l)

\* C21: a player import whose records are complete but for the team
\* reference never raises: the records whose team_id is not a known team,
\* is None, or is missing as a field, add no row, and every record with a
\* known team is in the committed table.
C21_UnknownTeamIsFiltered ==
    \A l \in {scope} :
        \A b \in CallerBatches :
            LET r == add_players(Store, l, b)
            IN  /\ ~r.raised
                /\ \A i \in 1..Len(b) :
                      KnownTeam(b[i], l) =>
                          CopiesIn(RowOf(b[i], "players", l),
                                   r.disk["players"][l]) > 0
                /\ \A row \in BagToSet(r.db["players"][l]) :
                      CopiesIn(row, r.db["players"][l])
                          > CopiesIn(row, db["players"][l]) =>
                          \E i \in 1..Len(b) :
                              /\ KnownTeam(b[i], l)
                              /\ row = RowOf(b[i], "players", l)

\* The write of a batch to the table of an entity type.
Write(kind, l, data) ==
    CASE kind = "teams" -> add_teams(Store, l, data)
      [] kind = "players" -> add_players(Store, l, data)
      [] kind = "results" -> add_results(Store, l, data)

\* C22: for every league and entity type whose fetcher the sources hold,
\* every record the fetcher emits has every field the league's statement
\* binds, and writing it does not raise.
C22_FetchersSupplyBoundFields ==
    \A l \in {scope}, kind \in Kinds :
        FetcherInSources(kind, l) =>
            \A raw \in SourceObjects(kind) :
                LET rec == Emitted(kind, l, raw)
                IN  /\ BoundCols(kind, l) \subseteq DOMAIN rec
                    /\ ~Write(kind, l, <<rec>>).raised

(***************************************************************************)
(* Properties of the normalisation the fetchers do.                        *)
(***************************************************************************)

\* C23: the player_id fetch_lovb_players derives is the words of the
\* cleaned name (without "Founding Athlete", stripped), lower-cased and
\* joined with "-"; so two derivations from names that differ only in
\* letter case give the same player_id.
C23_LovbPlayerIdLowerCase ==
    /\ \A n \in 1..Len(derived) :
          derived[n].by = "lovb_player_id" =>
              derived[n].id =
                  join(words(lower(strip(replace(derived[n].raw["Name"],
                                                  FoundingAthlete, << >>)))),
                       <<"-">>)
    /\ \A m, n \in 1..Len(derived) :
          /\ derived[m].by = "lovb_player_id"
          /\ derived[n].by = "lovb_player_id"
          /\ lower(derived[m].raw["Name"]) = lower(derived[n].raw["Name"])
          => derived[m].id = derived[n].id

\* C24: for each of the six LOVB teams, the team id the schedule fetcher
\* derives from the display name "LOVB <City>" is the team_id the roster
\* fetcher assigns to the players of the team's roster page.
C24_LovbTeamIdsAgree ==
    \A m, n \in 1..Len(derived) :
        \A t \in LovbTeams :
            /\ derived[m].by = "lovb_match_team_id"
            /\ derived[m].raw = t.display
            /\ derived[n].by = "lovb_roster_team_id"
            /\ derived[n].raw = t.roster_url
            => derived[m].id = derived[n].id

\* Both ids have been derived for Salt Lake.
C24_Witness ==
    \E m, n \in 1..Len(derived) :
        /\ derived[m].by = "lovb_match_team_id"
        /\ derived[n].by = "lovb_roster_team_id"
        /\ Contains(derived[m].raw, <<"S", "a", "l", "t", " ", "L", "a", "k", "e">>)
        /\ Contains(derived[n].raw, <<"s", "a", "l", "t">>)
        /\ derived[m].id = derived[n].id

\* The game's title is x, the separator, y.
TitleIs(game, x, sep, y) == game.title = x \o sep \o y

\* C25: a game titled "X at Y" is emitted with home team Y, one titled
\* "X vs Y" or "X vs. Y" with home team X; the home and the away team of an
\* emitted match are the two API teams, one each; and home and away are
\* never the same team.  The API names the two teams of the title, or
\* leaves a name empty.
C25_PvfHomeAndAway ==
    \A n \in 1..Len(derived) :
        derived[n].by = "pvf_match_entry" =>
            LET game == derived[n].raw
                out  == derived[n].out
                api  == {game.first_team_name, game.second_team_name}
            IN  api \subseteq TitleNames \cup {<< >>} /\ out.emitted =>
                    /\ \A x \in TitleNames : \A y \in TitleNames \ {x} :
                          /\ TitleIs(game, x, At, y) => out.home_team_name = y
                          /\ TitleIs(game, x, Vs, y) => out.home_team_name = x
                          /\ TitleIs(game, x, VsDot, y) =>
                                out.home_team_name = x
                    /\ {out.home_team_id, out.away_team_id}
                          = {replace(lower(game.first_team_name),
                                     <<" ">>, <<"-">>),
                             replace(lower(game.second_team_name),
                                     <<" ">>, <<"-">>)}
                    /\ out.home_team_name # out.away_team_name

\* The API supplies the score: it is neither missing nor null nor empty.
Supplied(score) == score.t # "null" /\ score.v # << >>

\* C26: whenever the API supplies both scores of an emitted match, the
\* stored score is "<home>-<away>", made of the two scores, for every pair
\* of scores, 0 included; the result text is stored only when a score is
\* absent.  The API names the two teams of the title, or leaves a name
\* empty.
C26_PvfScoreFromBothScores ==
    \A n \in 1..Len(derived) :
        derived[n].by = "pvf_match_entry" =>
            LET game == derived[n].raw
                out  == derived[n].out
                f    == game.first_team_score
                s    == game.second_team_score
            IN  /\ {game.first_team_name, game.second_team_name}
                      \subseteq TitleNames \cup {<< >>}
                /\ out.emitted
                /\ Supplied(f)
                /\ Supplied(s)
                => /\ out.score \in {f.v \o <<"-">> \o s.v, s.v \o <<"-">> \o f.v}
                   /\ out.score # game.result_text

\* The twenty-four-hour clock: the hours 1..12 before and after noon.
ClockAM == <<<<"0", "1">>, <<"0", "2">>, <<"0", "3">>, <<"0", "4">>,
             <<"0", "5">>, <<"0", "6">>, <<"0", "7">>, <<"0", "8">>,
             <<"0", "9">>, <<"1", "0">>, <<"1", "1">>, <<"0", "0">>>>

ClockPM == <<<<"1", "3">>, <<"1", "4">>, <<"1", "5">>, <<"1", "6">>,
             <<"1", "7">>, <<"1", "8">>, <<"1", "9">>, <<"2", "0">>,
             <<"2", "1">>, <<"2", "2">>, <<"2", "3">>, <<"1", "2">>>>

\* C27: the time of a box score row is converted to the twenty-four-hour
\* clock for every hour 1..12, every minute 00..59 and AM and PM: 12 AM is
\* hour 00, 12 PM is 12, h PM is h + 12 for h < 12, h AM is h; the hour has
\* two digits and the minute is kept.
C27_TimeToMilitary ==
    \A n \in 1..Len(derived) :
        derived[n].by = "match_time" =>
            LET t   == derived[n].raw
                out == derived[n].out
            IN  /\ out.set
                /\ out.time = (IF t.am_pm = "AM" THEN ClockAM[t.hour]
                               ELSE ClockPM[t.hour]) \o <<":">> \o t.minute

\* Half past midnight, 12:30 AM, has been converted to 00:30.
C27_Witness ==
    /\ Len(derived) = 1
    /\ derived[1].by = "match_time"
    /\ derived[1].raw.hour = 12
    /\ derived[1].raw.am_pm = "AM"
    /\ derived[1].raw.minute = <<"3", "0">>
    /\ derived[1].out.time = <<"0", "0", ":", "3", "0">>

(***************************************************************************)
(* Properties of the destinations of a run                                 *)
(***************************************************************************)

\* C28: with the default --db-path, after main the store is at ./vbdb.db
\* exactly if --no-local was not given and at ../vbdb-api/vbdb.db exactly if
\* --no-api was not given; and before build_database has completed all
\* slices the store is at the primary path only.
C28_DestinationsFollowFlags ==
    paths.db_path = None =>
        /\ pc.phase = "printed" =>
              /\ local_db_path \in paths.stores <=> ~paths.no_local
              /\ api_db_path \in paths.stores <=> ~paths.no_api
        /\ pc.phase # "printed" => paths.stores = {paths.primary_db_path}

(***************************************************************************)
(* Properties of a slice whose fetcher finds nothing                       *)
(***************************************************************************)

\* C29: a slice whose fetcher returns an empty sequence returns 0 by the
\* early return, without a store write: the connection's view and the
\* committed store are what they were, also when rows are pending, and the
\* orchestrator records 0.
C29_EmptyFetchWritesNothing ==
    [][ (/\ Len(ran') > Len(ran)
         /\ ~ran'[Len(ran')].fetched.raised
         /\ ran'[Len(ran')].fetched.data = << >>) =>
            /\ db' = db
            /\ disk' = disk
            /\ ran'[Len(ran')].count = 0
            /\ ran'[Len(ran')].status = "empty"
            /\ results'[ran'[Len(ran')].kind][ran'[Len(ran')].league] = 0
            /\ pc'.phase # "aborted" ]_vars

\* C29 witness: a team slice, a player slice and a schedule slice have each
\* fetched nothing and returned 0, the team slice in a league whose team
\* table holds a team.
C29_Witness ==
    \E i \in 1..Len(ran), j \in 1..Len(ran), k \in 1..Len(ran) :
        /\ ran[i].kind = "teams" /\ ran[i].seen # {}
        /\ ran[j].kind = "players"
        /\ ran[k].kind = "schedules"
        /\ \A e \in {ran[i], ran[j], ran[k]} :
              /\ e.fetched = Returns(<< >>)
              /\ e.count = 0
              /\ e.status = "empty"
              /\ results[e.kind][e.league] = 0

(***************************************************************************)
(* Properties of opening a store                                           *)
(***************************************************************************)

\* The tables of one kind.
TablesOf(k) == {t \in Kinds \X Leagues : t[1] = k}

\* The database file without the tables T, as a file written under a schema
\* that did not have them.
WithoutTables(file, T) ==
    [k \in Kinds |->
        [l \in Leagues |-> IF <<k, l>> \in T THEN EmptyBag ELSE file[k][l]]]
        @@ [tables |-> file["tables"] \ T]

\* The files init_db is run on: the committed store, and the committed
\* store without its results tables, without its player tables, and with
\* no table at all.
Files ==
    {disk, WithoutTables(disk, TablesOf("results")),
     WithoutTables(disk, TablesOf("players")),
     WithoutTables(disk, Kinds \X Leagues)}

\* C30: init_db on a database file, rows in it or not, creates the tables of
\* the schema that are missing, empty, and no other; every table the file
\* had keeps its rows; the connection sees what is committed; and a second
\* init_db changes nothing.
C30_InitDbNonDestructive ==
    \A file \in Files :
        LET r == init_db(file)
        IN  /\ r.disk["tables"] = file["tables"] \cup SchemaTables
            /\ \A t \in file["tables"] : r.disk[t[1]][t[2]] = file[t[1]][t[2]]
            /\ \A t \in SchemaTables \ file["tables"] :
                  r.disk[t[1]][t[2]] = EmptyBag
            /\ r.db = r.disk
            /\ init_db(r.disk) = r

\* C30 witness: the store has been opened again on a file that holds teams,
\* players and results of the league and the results table that
\* insert_ncaaw_results creates, with a row in it.
C30_Witness ==
    /\ db = init_db(disk).db
    /\ disk["teams"][scope] # EmptyBag
    /\ disk["players"][scope] # EmptyBag
    /\ disk["results"][scope] # EmptyBag
    /\ <<"results", "NCAAW">> \in disk["tables"]
    /\ disk["results"]["NCAAW"] # EmptyBag

====
